---- MODULE Spec2Model ----
(***************************************************************************)
(* A model of numpy/core/src/multiarray/datetime.c: the calendar kernel,   *)
(* the struct <-> value codec, the unit-factor arithmetic, the cast rules, *)
(* the metadata GCD and the value casts.                                   *)
(*                                                                         *)
(* npy_int64 / npy_uint64 quantities do not fit the model checker's        *)
(* integers, so they are carried as arbitrary-precision integers: a        *)
(* natural number is a little-endian sequence of limbs in base 2^15 with   *)
(* no leading zero limb (zero is <<>>), a signed integer is a record       *)
(* [neg, mag].  The width of the C types is applied explicitly where the   *)
(* code can reach it (Wrap64, InInt64).                                    *)
(***************************************************************************)
EXTENDS Integers, Sequences, FiniteSets, TLC

----------------------------------------------------------------------------
(* Sequencing.  Bind(e, LAMBDA x : body) is body with x standing for the   *)
(* value of e, computed once: an assignment "x = e;" followed by the rest   *)
(* of the function.                                                         *)

Only(S) == CHOOSE y \in S : TRUE

Bind(e, F(_)) == Only({F(v) : v \in {e}})

----------------------------------------------------------------------------
(* Natural numbers of any size.                                            *)

Base == 2^15

Limb(a, i) == IF i <= Len(a) THEN a[i] ELSE 0

RECURSIVE NNormLen(_, _)
NNormLen(a, n) ==
    IF n = 0 THEN 0
    ELSE IF a[n] # 0 THEN n
    ELSE NNormLen(a, n - 1)

NNorm(a) ==
    LET n == NNormLen(a, Len(a))
    IN  IF n = Len(a) THEN a ELSE SubSeq(a, 1, n)

NFromInt(n) ==
    IF n = 0 THEN <<>>
    ELSE IF n < Base THEN <<n>>
    ELSE IF n < Base * Base THEN <<n % Base, n \div Base>>
    ELSE <<n % Base, (n \div Base) % Base, n \div (Base * Base)>>

\* Defined for a < 2^31 only.
NToInt(a) ==
    Limb(a, 1) + Base * Limb(a, 2) + Base * Base * Limb(a, 3)

NFitsInt(a) == Len(a) <= 2 \/ (Len(a) = 3 /\ a[3] <= 1)

RECURSIVE NCmpAt(_, _, _)
NCmpAt(a, b, i) ==
    IF i = 0 THEN 0
    ELSE IF a[i] < b[i] THEN -1
    ELSE IF a[i] > b[i] THEN 1
    ELSE NCmpAt(a, b, i - 1)

\* -1, 0 or 1 as a < b, a = b, a > b.
NCmp(a, b) ==
    IF Len(a) < Len(b) THEN -1
    ELSE IF Len(a) > Len(b) THEN 1
    ELSE NCmpAt(a, b, Len(a))

NLt(a, b) == NCmp(a, b) < 0
NLe(a, b) == NCmp(a, b) <= 0

RECURSIVE NAddAt(_, _, _, _)
NAddAt(a, b, i, c) ==
    IF i > Len(a) /\ i > Len(b)
    THEN IF c = 0 THEN <<>> ELSE <<c>>
    ELSE LET s == Limb(a, i) + Limb(b, i) + c
         IN  <<s % Base>> \o NAddAt(a, b, i + 1, s \div Base)

NAdd(a, b) == NAddAt(a, b, 1, 0)

RECURSIVE NSubAt(_, _, _, _)
NSubAt(a, b, i, c) ==
    IF i > Len(a) THEN <<>>
    ELSE LET s == a[i] - Limb(b, i) - c
         IN  IF s < 0
             THEN <<s + Base>> \o NSubAt(a, b, i + 1, 1)
             ELSE <<s>> \o NSubAt(a, b, i + 1, 0)

\* a - b for a >= b.
NSub(a, b) == IF Len(b) = 0 THEN a ELSE NNorm(NSubAt(a, b, 1, 0))

RECURSIVE NMulLimbAt(_, _, _, _)
NMulLimbAt(a, k, i, c) ==
    IF i > Len(a)
    THEN IF c = 0 THEN <<>> ELSE <<c>>
    ELSE LET s == a[i] * k + c
         IN  <<s % Base>> \o NMulLimbAt(a, k, i + 1, s \div Base)

\* a * k for one limb 0 <= k < Base.
NMulLimb(a, k) ==
    IF k = 0 THEN <<>>
    ELSE IF k = 1 THEN a
    ELSE NMulLimbAt(a, k, 1, 0)

RECURSIVE NMulAt(_, _, _)
NMulAt(a, b, i) ==
    IF i > Len(b) THEN <<>>
    ELSE LET rest == NMulAt(a, b, i + 1)
             shifted == IF Len(rest) = 0 THEN <<>> ELSE <<0>> \o rest
         IN  NAdd(NMulLimb(a, b[i]), shifted)

NMul(a, b) ==
    IF Len(a) = 0 \/ Len(b) = 0 THEN <<>>
    ELSE IF Len(a) = 1 /\ Len(b) = 1 THEN NFromInt(a[1] * b[1])
    ELSE IF Len(b) <= Len(a) THEN NMulAt(a, b, 1)
    ELSE NMulAt(b, a, 1)

\* <<quotient limbs i..Len(a), remainder>> of a by one limb k > 0.
RECURSIVE NDivLimbAt(_, _, _)
NDivLimbAt(a, k, i) ==
    IF i > Len(a) THEN <<(<<>>), 0>>
    ELSE LET prev == NDivLimbAt(a, k, i + 1)
             cur == prev[2] * Base + a[i]
         IN  <<(<<cur \div k>> \o prev[1]), cur % k>>

NDivModLimb(a, k) ==
    LET r == NDivLimbAt(a, k, 1)
    IN  <<NNorm(r[1]), NFromInt(r[2])>>

\* The quotient digit of r by b, for r < b * Base and Len(b) >= 2, found
\* from the leading limbs and corrected downwards.
RECURSIVE NDigitFix(_, _, _)
NDigitFix(r, b, q) ==
    IF NCmp(NMulLimb(b, q), r) > 0 THEN NDigitFix(r, b, q - 1) ELSE q

NDigit(r, b) ==
    LET n == Len(b)
    IN  IF Len(r) < n THEN 0
        ELSE LET top == Limb(r, n + 1) * Base + r[n]
                 est == top \div b[n]
             IN  NDigitFix(r, b, IF est > Base - 1 THEN Base - 1 ELSE est)

RECURSIVE NDivLongAt(_, _, _)
NDivLongAt(a, b, i) ==
    IF i > Len(a) THEN <<(<<>>), (<<>>)>>
    ELSE LET prev == NDivLongAt(a, b, i + 1)
             r1 == IF Len(prev[2]) = 0 /\ a[i] = 0 THEN <<>>
                   ELSE <<a[i]>> \o prev[2]
             d == NDigit(r1, b)
         IN  <<(<<d>> \o prev[1]), NSub(r1, NMulLimb(b, d))>>

\* <<a div b, a mod b>> for b > 0.
NDivMod(a, b) ==
    IF NCmp(a, b) < 0 THEN <<(<<>>), a>>
    ELSE IF Len(a) <= 2
    THEN <<NFromInt(NToInt(a) \div NToInt(b)), NFromInt(NToInt(a) % NToInt(b))>>
    ELSE IF Len(b) = 1 THEN NDivModLimb(a, b[1])
    ELSE LET f == Base \div (b[Len(b)] + 1)
             r == NDivLongAt(NMulLimb(a, f), NMulLimb(b, f), 1)
         IN  <<NNorm(r[1]), NDivModLimb(r[2], f)[1]>>

NDiv(a, b) == NDivMod(a, b)[1]
NMod(a, b) == NDivMod(a, b)[2]

NPow2(k) ==
    [i \in 1 .. (k \div 15) + 1 |-> IF i = (k \div 15) + 1 THEN 2^(k % 15) ELSE 0]

----------------------------------------------------------------------------
(* Signed integers of any size, with C's truncating / and %.               *)

IMk(neg, mag) == [neg |-> neg /\ Len(mag) # 0, mag |-> mag]

I(n) == IF n < 0 THEN [neg |-> TRUE, mag |-> NFromInt(-n)]
        ELSE [neg |-> FALSE, mag |-> NFromInt(n)]

IZero == I(0)
IOne == I(1)

\* Defined for |x| < 2^31 only.
IToInt(x) == IF x.neg THEN -NToInt(x.mag) ELSE NToInt(x.mag)

IFitsInt(x) == NFitsInt(x.mag)

INeg(x) == IMk(~x.neg, x.mag)

IAdd(x, y) ==
    IF x.neg = y.neg THEN IMk(x.neg, NAdd(x.mag, y.mag))
    ELSE IF NCmp(x.mag, y.mag) >= 0 THEN IMk(x.neg, NSub(x.mag, y.mag))
    ELSE IMk(y.neg, NSub(y.mag, x.mag))

ISub(x, y) == IAdd(x, INeg(y))

IMul(x, y) == IMk(x.neg # y.neg, NMul(x.mag, y.mag))

ILt(x, y) ==
    IF x.neg /\ ~y.neg THEN TRUE
    ELSE IF ~x.neg /\ y.neg THEN FALSE
    ELSE IF x.neg THEN NCmp(x.mag, y.mag) > 0
    ELSE NCmp(x.mag, y.mag) < 0

ILe(x, y) == ~ILt(y, x)

\* C's x / y and x % y (truncation towards zero), y # 0.
CDivI(x, y) == IMk(x.neg # y.neg, NDiv(x.mag, y.mag))
CModI(x, y) == IMk(x.neg, NMod(x.mag, y.mag))

\* The same on the model checker's own integers, for int-sized quantities.
CDiv(a, b) == IF (a >= 0) = (b > 0)
              THEN (IF a >= 0 THEN a ELSE -a) \div (IF b > 0 THEN b ELSE -b)
              ELSE -((IF a >= 0 THEN a ELSE -a) \div (IF b > 0 THEN b ELSE -b))
CMod(a, b) == a - b * CDiv(a, b)

----------------------------------------------------------------------------
(* The widths of the C types.                                              *)

Two63 == NPow2(63)
Two64 == NPow2(64)
Two56 == NPow2(56)
Two31 == NPow2(31)

\* NPY_DATETIME_NAT is NPY_MIN_INT64.
NPY_DATETIME_NAT == [neg |-> TRUE, mag |-> Two63]
NPY_MAX_INT64 == [neg |-> FALSE, mag |-> NSub(Two63, <<1>>)]

InInt64(x) == IF x.neg THEN NLe(x.mag, Two63) ELSE NLt(x.mag, Two63)

\* An npy_uint64 result: the natural number a modulo 2^64.
Wrap64(a) ==
    IF Len(a) < 5 THEN a
    ELSE NNorm(<<a[1], a[2], a[3], a[4], a[5] % 16>>)

\* (npy_int64)u for an npy_uint64 u: the two's complement reading.
U64ToI64(u) ==
    IF NLt(u, Two63) THEN IMk(FALSE, u) ELSE IMk(TRUE, NSub(Two64, u))

\* (npy_uint64)x for an npy_int64 x.
I64ToU64(x) == IF x.neg THEN NSub(Two64, x.mag) ELSE x.mag

\* The two's complement wrap of an out-of-range signed result.
WrapI64(x) == U64ToI64(IF x.neg THEN NMod(NSub(NMul(Two64, NAdd(NDiv(x.mag, Two64), <<1>>)), x.mag), Two64)
                       ELSE Wrap64(x.mag))

----------------------------------------------------------------------------
(* The units, in the order of NPY_DATETIMEUNIT (_datetime_strings).        *)

NPY_FR_Y == 0
NPY_FR_M == 1
NPY_FR_W == 2
NPY_FR_B == 3
NPY_FR_D == 4
NPY_FR_h == 5
NPY_FR_m == 6
NPY_FR_s == 7
NPY_FR_ms == 8
NPY_FR_us == 9
NPY_FR_ns == 10
NPY_FR_ps == 11
NPY_FR_fs == 12
NPY_FR_as == 13
NPY_FR_GENERIC == 14

Units == NPY_FR_Y .. NPY_FR_GENERIC

Meta(base, num) == [base |-> base, num |-> num]

----------------------------------------------------------------------------
(* The calendar kernel.  Day counts and years are npy_int64 in the code;   *)
(* the kernel is modelled on the model checker's integers, and its callers *)
(* only hand it day counts and years that fit them.                        *)

_days_per_month_table ==
    << <<31, 28, 31, 30, 31, 30, 31, 31, 30, 31, 30, 31>>,
       <<31, 29, 31, 30, 31, 30, 31, 31, 30, 31, 30, 31>> >>

get_day_of_week(date) ==
    Bind(CMod(date - 4, 7), LAMBDA day_of_week :
    IF day_of_week < 0 THEN day_of_week + 7 ELSE day_of_week)

is_leapyear(year) ==
    (year % 4 = 0) /\ (CMod(year, 100) # 0 \/ CMod(year, 400) = 0)

month_lengths_of(year) ==
    _days_per_month_table[IF is_leapyear(year) THEN 2 ELSE 1]

RECURSIVE SumMonths(_, _)
SumMonths(month_lengths, month) ==
    IF month <= 0 THEN 0
    ELSE month_lengths[month] + SumMonths(month_lengths, month - 1)

\* LeapAdjust with the pivot of the years before 1970 off by one
\* ("year -= 1" for "year -= 2").
LeapAdjust_OffByOne(y) ==
    IF y * 365 >= 0
    THEN CDiv(y + 1, 4) - CDiv(y + 69, 100) + CDiv(y + 369, 400)
    ELSE CDiv(y - 1, 4) - CDiv(y - 29, 100) + CDiv(y - 29, 400)

\* The leap-day adjustment of get_datetimestruct_days for year - 1970 = y.
LeapAdjust(y) ==
    IF y * 365 >= 0
    THEN CDiv(y + 1, 4) - CDiv(y + 69, 100) + CDiv(y + 369, 400)
    ELSE CDiv(y - 2, 4) - CDiv(y - 30, 100) + CDiv(y - 30, 400)

\* year, month, day are the int values of the struct's fields.
DaysOfYMD(year, month, day) ==
    (year - 1970) * 365 + LeapAdjust(year - 1970)
        + SumMonths(month_lengths_of(year), month - 1) + (day - 1)

get_datetimestruct_days(dts) ==
    Bind(IToInt(dts.year), LAMBDA year :
    DaysOfYMD(year, dts.month, dts.day))

get_datetimestruct_minutes(dts) ==
    get_datetimestruct_days(dts) * 24 * 60 + dts.hour * 60 + dts.min

days_per_400years == 400 * 365 + 100 - 4 + 1

\* <<year, day within the year>>.
days_to_yearsdays(days_) ==
    \* Adjust so it's relative to the year 2000 (divisible by 400)
    Bind(days_ - (365 * 30 + 7), LAMBDA d0 :
    \* Break down the 400 year cycle to get the year and day within the year
    Bind(IF d0 >= 0
         THEN 400 * CDiv(d0, days_per_400years)
         ELSE 400 * CDiv(d0 - (days_per_400years - 1), days_per_400years),
         LAMBDA year0 :
    Bind(IF d0 >= 0
         THEN CMod(d0, days_per_400years)
         ELSE Bind(CMod(d0, days_per_400years), LAMBDA m :
              IF m < 0 THEN m + days_per_400years ELSE m),
         LAMBDA d1 :
    \* Work out the year/day within the 400 year cycle
    Bind(IF d1 >= 366
         THEN year0 + 100 * CDiv(d1 - 1, 100 * 365 + 25 - 1)
         ELSE year0,
         LAMBDA year1 :
    Bind(IF d1 >= 366 THEN CMod(d1 - 1, 100 * 365 + 25 - 1) ELSE d1,
         LAMBDA d2 :
    Bind(d1 >= 366 /\ d2 >= 365, LAMBDA in4 :
    Bind(IF in4 THEN year1 + 4 * CDiv(d2 + 1, 4 * 365 + 1) ELSE year1,
         LAMBDA year2 :
    Bind(IF in4 THEN CMod(d2 + 1, 4 * 365 + 1) ELSE d2, LAMBDA d3 :
    Bind(in4 /\ d3 >= 366, LAMBDA in1 :
    Bind(IF in1 THEN year2 + CDiv(d3 - 1, 365) ELSE year2, LAMBDA year3 :
    Bind(IF in1 THEN CMod(d3 - 1, 365) ELSE d3, LAMBDA d4 :
    <<year3 + 2000, d4>>)))))))))))

\* The month loop of set_datetimestruct_days and days_to_month_number, from
\* index i (0-based) with 'days' left: <<found, month, day>>.
RECURSIVE MonthLoop(_, _, _)
MonthLoop(month_lengths, i, days) ==
    IF i >= 12 THEN <<FALSE, 0, 0>>
    ELSE IF days < month_lengths[i + 1] THEN <<TRUE, i + 1, days + 1>>
    ELSE MonthLoop(month_lengths, i + 1, days - month_lengths[i + 1])

days_to_month_number(days) ==
    Bind(days_to_yearsdays(days), LAMBDA yd :
    Bind(MonthLoop(month_lengths_of(yd[1]), 0, yd[2]), LAMBDA r :
    IF r[1] THEN r[2] ELSE 1))

set_datetimestruct_days(days, dts) ==
    Bind(days_to_yearsdays(days), LAMBDA yd :
    Bind(MonthLoop(month_lengths_of(yd[1]), 0, yd[2]), LAMBDA r :
    IF r[1]
    THEN [dts EXCEPT !.year = I(yd[1]), !.month = r[2], !.day = r[3]]
    ELSE [dts EXCEPT !.year = I(yd[1])]))

\* get_nweekdays without the clamping of Saturday and Sunday to Friday.
get_nweekdays_NoClamp(first, second) ==
    Bind(second < first, LAMBDA swapped :
    Bind(IF swapped THEN second ELSE first, LAMBDA f :
    Bind(IF swapped THEN first ELSE second, LAMBDA s :
    Bind(get_day_of_week(f), LAMBDA dotw_first :
    Bind(get_day_of_week(s), LAMBDA ds :
    Bind(IF ds < dotw_first THEN ds + 5 ELSE ds, LAMBDA dotw_second :
    Bind(CDiv(s - f, 7) * 5 + (dotw_second - dotw_first), LAMBDA ndays :
    IF swapped THEN -ndays ELSE ndays)))))))

get_nweekdays(first, second) ==
    Bind(second < first, LAMBDA swapped :
    Bind(IF swapped THEN second ELSE first, LAMBDA f :
    Bind(IF swapped THEN first ELSE second, LAMBDA s :
    Bind(get_day_of_week(f), LAMBDA df :
    Bind(get_day_of_week(s), LAMBDA ds :
    Bind(IF df > 4 THEN 4 ELSE df, LAMBDA dotw_first :
    Bind(IF ds > 4 THEN 4 ELSE ds, LAMBDA ds4 :
    Bind(IF ds4 < dotw_first THEN ds4 + 5 ELSE ds4, LAMBDA dotw_second :
    Bind(CDiv(s - f, 7) * 5 + (dotw_second - dotw_first), LAMBDA ndays :
    IF swapped THEN -ndays ELSE ndays)))))))))

\* memset(out, 0, ...); year = 1970; month = 1; day = 1.
ZeroStruct ==
    [year |-> I(1970), month |-> 1, day |-> 1, hour |-> 0, min |-> 0,
     sec |-> 0, us |-> 0, ps |-> 0, as |-> 0]

----------------------------------------------------------------------------
(* add_minutes_to_datetimestruct and add_seconds_to_datetimestruct.        *)

\* The four while loops, each by the number k of times its body runs.
\* while (dts->min < 0) { dts->min += 60; dts->hour--; }
CarryMinUp(d) ==
    IF d.min < 0
    THEN Bind((59 - d.min) \div 60, LAMBDA k :
         [d EXCEPT !.min = d.min + 60 * k, !.hour = d.hour - k])
    ELSE d

\* while (dts->min >= 60) { dts->min -= 60; dts->hour++; }
CarryMinDown(d) ==
    IF d.min >= 60
    THEN Bind(d.min \div 60, LAMBDA k :
         [d EXCEPT !.min = d.min - 60 * k, !.hour = d.hour + k])
    ELSE d

\* while (dts->hour < 0) { dts->hour += 24; dts->day--; }
CarryHourUp(d) ==
    IF d.hour < 0
    THEN Bind((23 - d.hour) \div 24, LAMBDA k :
         [d EXCEPT !.hour = d.hour + 24 * k, !.day = d.day - k])
    ELSE d

\* while (dts->hour >= 24) { dts->hour -= 24; dts->day++; }
CarryHourDown(d) ==
    IF d.hour >= 24
    THEN Bind(d.hour \div 24, LAMBDA k :
         [d EXCEPT !.hour = d.hour - 24 * k, !.day = d.day + k])
    ELSE d

\* The DAYS step: one month borrowed or carried, at most.
CarryDays(d) ==
    IF d.day < 1
    THEN Bind(d.month - 1, LAMBDA m1 :
         Bind(IF m1 < 1 THEN ISub(d.year, IOne) ELSE d.year, LAMBDA y1 :
         Bind(IF m1 < 1 THEN 12 ELSE m1, LAMBDA m2 :
         [d EXCEPT !.year = y1, !.month = m2,
                   !.day = d.day + month_lengths_of(IToInt(y1))[m2]])))
    ELSE IF d.day > 28
    THEN Bind(month_lengths_of(IToInt(d.year))[d.month], LAMBDA len :
         IF d.day > len
         THEN IF d.month + 1 > 12
              THEN [d EXCEPT !.day = d.day - len, !.month = 1,
                             !.year = IAdd(d.year, IOne)]
              ELSE [d EXCEPT !.day = d.day - len, !.month = d.month + 1]
         ELSE d)
    ELSE d

add_minutes_to_datetimestruct(dts, minutes) ==
    \* MINUTES
    Bind(CarryMinUp([dts EXCEPT !.min = dts.min + minutes]), LAMBDA d1 :
    Bind(CarryMinDown(d1), LAMBDA d2 :
    \* HOURS
    Bind(CarryHourUp(d2), LAMBDA d3 :
    Bind(CarryHourDown(d3), LAMBDA d4 :
    \* DAYS
    Bind(d4, CarryDays)))))

add_seconds_to_datetimestruct(dts, seconds) ==
    Bind(dts, LAMBDA d :
    Bind(d.sec + seconds, LAMBDA sec0 :
    IF sec0 < 0
    THEN Bind(CDiv(sec0, 60), LAMBDA m0 :
         Bind(CMod(sec0, 60), LAMBDA s0 :
         IF s0 < 0
         THEN add_minutes_to_datetimestruct([d EXCEPT !.sec = s0 + 60], m0 - 1)
         ELSE add_minutes_to_datetimestruct([d EXCEPT !.sec = s0], m0)))
    ELSE IF sec0 >= 60
    THEN add_minutes_to_datetimestruct(
             [d EXCEPT !.sec = CMod(sec0, 60)], CDiv(sec0, 60))
    ELSE [d EXCEPT !.sec = sec0]))

----------------------------------------------------------------------------
(* The struct <-> value codec.                                             *)

E3 == I(1000)
E6 == I(1000000)
E9 == I(1000000000)
E12 == IMul(E6, E6)
E15 == IMul(E9, E6)
E18 == IMul(E9, E9)

\* x * k + a, the step of the compound expressions of the codec.
MulAdd(x, k, a) == IAdd(IMul(x, k), I(a))

SecondsOf(days, dts) ==
    MulAdd(MulAdd(MulAdd(I(days), I(24), dts.hour), I(60), dts.min),
           I(60), dts.sec)

\* The value in units of 'base', before the division by the multiplier.
StructTicks(base, dts) ==
    Bind(dts, LAMBDA d :
    Bind(IToInt(d.year), LAMBDA year :
    Bind(IF base \in {NPY_FR_Y, NPY_FR_M} THEN 0
         ELSE get_datetimestruct_days(d), LAMBDA days :
    Bind(IF base \in NPY_FR_s .. NPY_FR_as THEN SecondsOf(days, d)
         ELSE IZero, LAMBDA secs :
    CASE base = NPY_FR_Y -> I(year - 1970)
      [] base = NPY_FR_M -> I(12 * (year - 1970) + (d.month - 1))
      [] base = NPY_FR_W ->
             IF days >= 0 THEN I(CDiv(days, 7)) ELSE I(CDiv(days - 6, 7))
      [] base = NPY_FR_B -> I(get_nweekdays(0, days))
      [] base = NPY_FR_D -> I(days)
      [] base = NPY_FR_h -> MulAdd(I(days), I(24), d.hour)
      [] base = NPY_FR_m ->
             MulAdd(MulAdd(I(days), I(24), d.hour), I(60), d.min)
      [] base = NPY_FR_s -> secs
      [] base = NPY_FR_ms -> MulAdd(secs, E3, CDiv(d.us, 1000))
      [] base = NPY_FR_us -> MulAdd(secs, E6, d.us)
      [] base = NPY_FR_ns ->
             MulAdd(MulAdd(secs, E6, d.us), E3, CDiv(d.ps, 1000))
      [] base = NPY_FR_ps -> MulAdd(MulAdd(secs, E6, d.us), E6, d.ps)
      [] base = NPY_FR_fs ->
             MulAdd(MulAdd(MulAdd(secs, E6, d.us), E6, d.ps),
                    E3, CDiv(d.as, 1000))
      [] base = NPY_FR_as ->
             MulAdd(MulAdd(MulAdd(secs, E6, d.us), E6, d.ps), E6, d.as)))))

\* "Divide by the multiplier".
DivideByMultiplier(r, num) ==
    IF num > 1
    THEN Bind(r, LAMBDA ret_ :
         IF ~ret_.neg
         THEN CDivI(ret_, I(num))
         ELSE CDivI(IAdd(ISub(ret_, I(num)), IOne), I(num)))
    ELSE r

\* [status, out, overflow]: status 0 with the value, or -1 (out is then not
\* written).  overflow tells that the compound expression left npy_int64,
\* which the code does not test; out is then the exact value.
convert_datetimestruct_to_datetime(meta, dts) ==
    IF dts.year = NPY_DATETIME_NAT
    THEN [status |-> 0, out |-> NPY_DATETIME_NAT, overflow |-> FALSE]
    ELSE IF meta.base = NPY_FR_GENERIC
    THEN [status |-> -1]
    ELSE IF meta.base \notin NPY_FR_Y .. NPY_FR_as
    THEN [status |-> -1]
    ELSE Bind(StructTicks(meta.base, dts), LAMBDA ticks :
         [status |-> 0,
          out |-> DivideByMultiplier(ticks, meta.num),
          overflow |-> ~InInt64(ticks)])

\* SplitDays with C's truncating division used for negative values too.
SplitDays_Truncating(dt, perday) ==
    Bind(dt, LAMBDA v : <<CDivI(v, perday), CModI(v, perday)>>)

\* The split of a value of a unit with 'perday' ticks a day into the day
\* offset and the ticks within the day: <<days, ticks>>.
SplitDays(dt, perday) ==
    Bind(dt, LAMBDA v :
    Bind(perday, LAMBDA p :
    IF ~v.neg
    THEN <<CDivI(v, p), CModI(v, p)>>
    ELSE <<CDivI(ISub(v, ISub(p, IOne)), p),
           IAdd(ISub(p, IOne), CModI(IAdd(v, IOne), p))>>))

\* x / d and (x / d) % m as ints.
Quot(x, d) == IToInt(CDivI(x, d))
QuotMod(x, d, m) == IToInt(CModI(CDivI(x, d), I(m)))
Rem(x, d) == IToInt(CModI(x, d))

\* BusinessAbsDays with the formula of the values from 0 on used for the
\* negative values too.
BusinessAbsDays_NoSplit(dt) ==
    7 * CDiv(dt + 3, 5) + CMod(dt + 3, 5) - 3

\* absdays of the NPY_FR_B case: "Convert the business day to the number of
\* actual days".
BusinessAbsDays(dt) ==
    IF dt >= 0
    THEN 7 * CDiv(dt + 3, 5) + CMod(dt + 3, 5) - 3
    ELSE 7 * CDiv(dt - 1, 5) + CMod(dt - 1, 5) + 1

\* The struct of the already multiplied value dt in units of 'base'.
TicksStruct(base, dt_, out) ==
    Bind(dt_, LAMBDA dt :
    CASE base = NPY_FR_Y -> [out EXCEPT !.year = IAdd(I(1970), dt)]
      [] base = NPY_FR_M ->
             IF ~dt.neg
             THEN [out EXCEPT !.year = IAdd(I(1970), CDivI(dt, I(12))),
                              !.month = Rem(dt, I(12)) + 1]
             ELSE [out EXCEPT
                      !.year = IAdd(I(1969), CDivI(IAdd(dt, IOne), I(12))),
                      !.month = 12 + Rem(IAdd(dt, IOne), I(12))]
      [] base = NPY_FR_W ->
             set_datetimestruct_days(IToInt(IMul(dt, I(7))), out)
      [] base = NPY_FR_B ->
             set_datetimestruct_days(BusinessAbsDays(IToInt(dt)), out)
      [] base = NPY_FR_D -> set_datetimestruct_days(IToInt(dt), out)
      [] base = NPY_FR_h ->
             Bind(SplitDays(dt, I(24)), LAMBDA sp :
                 [set_datetimestruct_days(IToInt(sp[1]), out)
                     EXCEPT !.hour = IToInt(sp[2])])
      [] base = NPY_FR_m ->
             Bind(SplitDays(dt, I(24 * 60)), LAMBDA sp :
                 [set_datetimestruct_days(IToInt(sp[1]), out)
                     EXCEPT !.hour = Quot(sp[2], I(60)),
                            !.min = Rem(sp[2], I(60))])
      [] base = NPY_FR_s ->
             Bind(SplitDays(dt, I(24 * 60 * 60)), LAMBDA sp :
                 [set_datetimestruct_days(IToInt(sp[1]), out)
                     EXCEPT !.hour = Quot(sp[2], I(60 * 60)),
                            !.min = QuotMod(sp[2], I(60), 60),
                            !.sec = Rem(sp[2], I(60))])
      [] base = NPY_FR_ms ->
             Bind(SplitDays(dt, IMul(I(24 * 60 * 60), E3)), LAMBDA sp :
                 [set_datetimestruct_days(IToInt(sp[1]), out)
                     EXCEPT !.hour = Quot(sp[2], IMul(I(60 * 60), E3)),
                            !.min = QuotMod(sp[2], IMul(I(60), E3), 60),
                            !.sec = QuotMod(sp[2], E3, 60),
                            !.us = Rem(sp[2], E3) * 1000])
      [] base = NPY_FR_us ->
             Bind(SplitDays(dt, IMul(I(24 * 60 * 60), E6)), LAMBDA sp :
                 [set_datetimestruct_days(IToInt(sp[1]), out)
                     EXCEPT !.hour = Quot(sp[2], IMul(I(60 * 60), E6)),
                            !.min = QuotMod(sp[2], IMul(I(60), E6), 60),
                            !.sec = QuotMod(sp[2], E6, 60),
                            !.us = Rem(sp[2], E6)])
      [] base = NPY_FR_ns ->
             Bind(SplitDays(dt, IMul(I(24 * 60 * 60), E9)), LAMBDA sp :
                 [set_datetimestruct_days(IToInt(sp[1]), out)
                     EXCEPT !.hour = Quot(sp[2], IMul(I(60 * 60), E9)),
                            !.min = QuotMod(sp[2], IMul(I(60), E9), 60),
                            !.sec = QuotMod(sp[2], E9, 60),
                            !.us = QuotMod(sp[2], E3, 1000000),
                            !.ps = Rem(sp[2], E3) * 1000])
      [] base = NPY_FR_ps ->
             Bind(SplitDays(dt, IMul(I(24 * 60 * 60), E12)), LAMBDA sp :
                 [set_datetimestruct_days(IToInt(sp[1]), out)
                     EXCEPT !.hour = Quot(sp[2], IMul(I(60 * 60), E12)),
                            !.min = QuotMod(sp[2], IMul(I(60), E12), 60),
                            !.sec = QuotMod(sp[2], E12, 60),
                            !.us = QuotMod(sp[2], E6, 1000000),
                            !.ps = Rem(sp[2], E6)])
      [] base = NPY_FR_fs ->
             IF ~dt.neg
             THEN [out EXCEPT !.hour = Quot(dt, IMul(I(60 * 60), E15)),
                              !.min = QuotMod(dt, IMul(I(60), E15), 60),
                              !.sec = QuotMod(dt, E15, 60),
                              !.us = QuotMod(dt, E9, 1000000),
                              !.ps = QuotMod(dt, E3, 1000000),
                              !.as = Rem(dt, E3) * 1000]
             ELSE Bind(IMul(I(60), E15), LAMBDA permin :
                  Bind(CDivI(dt, permin), LAMBDA m0 :
                  Bind(CModI(dt, permin), LAMBDA r0 :
                  Bind(IF r0.neg THEN ISub(m0, IOne) ELSE m0, LAMBDA minutes :
                  Bind(IF r0.neg THEN IAdd(r0, permin) ELSE r0, LAMBDA r :
                  [add_minutes_to_datetimestruct(out, IToInt(minutes))
                      EXCEPT !.sec = QuotMod(r, E15, 60),
                             !.us = QuotMod(r, E9, 1000000),
                             !.ps = QuotMod(r, E3, 1000000),
                             !.as = Rem(r, E3) * 1000])))))
      [] base = NPY_FR_as ->
             IF ~dt.neg
             THEN [out EXCEPT !.sec = QuotMod(dt, E18, 60),
                              !.us = QuotMod(dt, E12, 1000000),
                              !.ps = QuotMod(dt, E6, 1000000),
                              !.as = Rem(dt, E6)]
             ELSE Bind(CDivI(dt, E18), LAMBDA s0 :
                  Bind(CModI(dt, E18), LAMBDA r0 :
                  Bind(IF r0.neg THEN ISub(s0, IOne) ELSE s0, LAMBDA seconds :
                  Bind(IF r0.neg THEN IAdd(r0, E18) ELSE r0, LAMBDA r :
                  [add_seconds_to_datetimestruct(out, IToInt(seconds))
                      EXCEPT !.us = QuotMod(r, E12, 1000000),
                             !.ps = QuotMod(r, E6, 1000000),
                             !.as = Rem(r, E6)])))))

\* [status, out, overflow]: status 0 with the struct, or -1.  overflow
\* tells that dt * meta->num left npy_int64, which the code does not test;
\* out is then the struct of the exact product.
convert_datetime_to_datetimestruct(meta, dt) ==
    IF dt = NPY_DATETIME_NAT
    THEN [status |-> 0, out |-> [ZeroStruct EXCEPT !.year = NPY_DATETIME_NAT],
          overflow |-> FALSE]
    ELSE IF meta.base = NPY_FR_GENERIC
    THEN [status |-> -1]
    ELSE IF meta.base \notin NPY_FR_Y .. NPY_FR_as
    THEN [status |-> -1]
    ELSE Bind(IMul(dt, I(meta.num)), LAMBDA ticks :
         [status |-> 0,
          out |-> TicksStruct(meta.base, ticks, ZeroStruct),
          overflow |-> ~InInt64(ticks)])

----------------------------------------------------------------------------
(* Unit-factor arithmetic.                                                 *)

_datetime_factors ==
    <<1, 1, 7, 1, 24, 60, 60, 1000, 1000, 1000, 1000, 1000, 1000, 1, 0>>

\* factor & 0xff00000000000000 for an npy_uint64.
TopByteSet(u) == ~NLt(u, Two56)

\* The loop of get_datetime_units_factor from 'unit' with 'factor' so far;
\* <<>> (zero) when the overflow test trips.
RECURSIVE UnitsFactorLoop(_, _, _)
UnitsFactorLoop(unit, littlebase, factor) ==
    IF littlebase > unit
    THEN LET f == Wrap64(NMulLimb(factor, _datetime_factors[unit + 1]))
         IN  IF TopByteSet(f) THEN <<>>
             ELSE UnitsFactorLoop(unit + 1, littlebase, f)
    ELSE factor

get_datetime_units_factor(bigbase, littlebase) ==
    UnitsFactorLoop(bigbase, littlebase, <<1>>)

RECURSIVE EuclidLoop(_, _)
EuclidLoop(x, y) ==
    IF x # y /\ Len(y) # 0 THEN EuclidLoop(y, NMod(x, y)) ELSE x

\* _uint64_euclidean_gcd without its loop: the smaller of the two.
_uint64_euclidean_gcd_NoLoop(x, y) ==
    IF NCmp(x, y) > 0 THEN y ELSE x

_uint64_euclidean_gcd(x, y) ==
    IF NCmp(x, y) > 0 THEN EuclidLoop(y, x) ELSE EuclidLoop(x, y)

U64Mul(a, b) == Wrap64(NMul(a, b))

\* <<num, denom>> of get_datetime_conversion_factor for src_base < dst_base,
\* before the swap and the multipliers.
UnitPairFactor(src_base, dst_base) ==
    IF src_base = NPY_FR_Y
    THEN IF dst_base = NPY_FR_M THEN <<NFromInt(12), <<1>>>>
         ELSE IF dst_base = NPY_FR_W
         THEN <<NFromInt(97 + 400 * 365), NFromInt(400 * 7)>>
         ELSE IF dst_base = NPY_FR_B
         THEN <<U64Mul(NFromInt(((97 + 400 * 365) * 5) \div 7),
                       get_datetime_units_factor(NPY_FR_B, dst_base)),
                NFromInt(400)>>
         ELSE <<U64Mul(NFromInt(97 + 400 * 365),
                       get_datetime_units_factor(NPY_FR_D, dst_base)),
                NFromInt(400)>>
    ELSE IF src_base = NPY_FR_M
    THEN IF dst_base = NPY_FR_W
         THEN <<NFromInt(97 + 400 * 365), NFromInt(400 * 12 * 7)>>
         ELSE LET n0 == IF dst_base = NPY_FR_B
                        THEN NFromInt((97 + 400 * 365) * 5)
                        ELSE NFromInt(97 + 400 * 365)
                  d0 == IF dst_base = NPY_FR_B
                        THEN NFromInt(400 * 12 * 7)
                        ELSE NFromInt(400 * 12)
              IN  <<U64Mul(n0, get_datetime_units_factor(NPY_FR_D, dst_base)),
                    d0>>
    ELSE <<get_datetime_units_factor(src_base, dst_base), <<1>>>>

\* "Swap the numerator and denominator if necessary", without the swap.
SwapFactor_Never(swapped, nd) == nd

\* "Swap the numerator and denominator if necessary" on <<num, denom>>.
SwapFactor(swapped, nd) == IF swapped THEN <<nd[2], nd[1]>> ELSE nd

\* [num, denom, err]: the two outputs as npy_int64 and the exception set
\* ("" when none).  ub is TRUE where the code divides by a zero gcd.
get_datetime_conversion_factor(src_meta, dst_meta) ==
    IF src_meta.base = NPY_FR_GENERIC
    THEN [num |-> IOne, denom |-> IOne, err |-> "", ub |-> FALSE]
    ELSE IF dst_meta.base = NPY_FR_GENERIC
    THEN [num |-> IZero, denom |-> IZero, err |-> "ValueError", ub |-> FALSE]
    ELSE
    LET swapped == ~(src_meta.base <= dst_meta.base)
        src_base == IF swapped THEN dst_meta.base ELSE src_meta.base
        dst_base == IF swapped THEN src_meta.base ELSE dst_meta.base
        nd == IF src_base # dst_base
              THEN UnitPairFactor(src_base, dst_base)
              ELSE <<(<<1>>), (<<1>>)>>
    IN  IF Len(nd[2]) = 0
        THEN [num |-> IZero, denom |-> IZero, err |-> "OverflowError",
              ub |-> FALSE]
        ELSE LET num == U64Mul(SwapFactor(swapped, nd)[1],
                               NFromInt(src_meta.num))
                 denom == U64Mul(SwapFactor(swapped, nd)[2],
                                 NFromInt(dst_meta.num))
                 gcd == _uint64_euclidean_gcd(num, denom)
             IN  IF Len(gcd) = 0
                 THEN [num |-> IZero, denom |-> IZero, err |-> "", ub |-> TRUE]
                 ELSE [num |-> U64ToI64(NDiv(num, gcd)),
                       denom |-> U64ToI64(NDiv(denom, gcd)),
                       err |-> "", ub |-> FALSE]

datetime_metadata_divides(dividend, divisor, strict_with_nonlinear_units) ==
    IF divisor.base = NPY_FR_GENERIC THEN TRUE
    ELSE IF dividend.base = NPY_FR_GENERIC THEN FALSE
    ELSE IF dividend.base = divisor.base
    THEN LET num1 == NFromInt(dividend.num)
             num2 == NFromInt(divisor.num)
         IN  IF TopByteSet(num1) \/ TopByteSet(num2) THEN FALSE
             ELSE Len(NMod(num1, num2)) = 0
    ELSE IF dividend.base = NPY_FR_B \/ divisor.base = NPY_FR_B THEN FALSE
    ELSE IF dividend.base = NPY_FR_Y /\ divisor.base # NPY_FR_M
    THEN ~strict_with_nonlinear_units
    ELSE IF dividend.base # NPY_FR_Y /\ divisor.base = NPY_FR_Y
            /\ dividend.base # NPY_FR_M
    THEN ~strict_with_nonlinear_units
    ELSE IF dividend.base # NPY_FR_Y /\ divisor.base # NPY_FR_Y
            /\ (dividend.base = NPY_FR_M \/ divisor.base = NPY_FR_M)
    THEN ~strict_with_nonlinear_units
    ELSE
    LET num1a == IF dividend.base = NPY_FR_Y
                 THEN U64Mul(NFromInt(dividend.num), NFromInt(12))
                 ELSE NFromInt(dividend.num)
        num2a == IF dividend.base # NPY_FR_Y /\ divisor.base = NPY_FR_Y
                 THEN U64Mul(NFromInt(divisor.num), NFromInt(12))
                 ELSE NFromInt(divisor.num)
        greater == dividend.base > divisor.base
        num2 == IF greater
                THEN U64Mul(num2a, get_datetime_units_factor(divisor.base,
                                                             dividend.base))
                ELSE num2a
        num1 == IF greater THEN num1a
                ELSE U64Mul(num1a, get_datetime_units_factor(dividend.base,
                                                             divisor.base))
    IN  IF greater /\ Len(num2) = 0 THEN FALSE
        ELSE IF ~greater /\ Len(num1) = 0 THEN FALSE
        ELSE IF TopByteSet(num1) \/ TopByteSet(num2) THEN FALSE
        ELSE Len(NMod(num1, num2)) = 0

----------------------------------------------------------------------------
(* The cast rules.  The casting levels are "no", "equiv", "safe",          *)
(* "same_kind" and "unsafe" (NPY_CASTING).                                 *)

Castings == {"no", "equiv", "safe", "same_kind", "unsafe"}

\* can_cast_datetime64_units without the order test of the safe level.
can_cast_datetime64_units_NoOrder(src_unit, dst_unit, casting) ==
    CASE casting = "unsafe" -> TRUE
      [] casting \in {"same_kind", "safe"} ->
             IF src_unit = NPY_FR_GENERIC \/ dst_unit = NPY_FR_GENERIC
             THEN src_unit = dst_unit
             ELSE \/ src_unit <= NPY_FR_D /\ dst_unit <= NPY_FR_D
                  \/ src_unit > NPY_FR_D /\ dst_unit > NPY_FR_D
      [] OTHER -> src_unit = dst_unit

can_cast_datetime64_units(src_unit, dst_unit, casting) ==
    CASE casting = "unsafe" -> TRUE
      [] casting = "same_kind" ->
             IF src_unit = NPY_FR_GENERIC \/ dst_unit = NPY_FR_GENERIC
             THEN src_unit = dst_unit
             ELSE \/ (src_unit <= NPY_FR_D /\ dst_unit <= NPY_FR_D)
                  \/ (src_unit > NPY_FR_D /\ dst_unit > NPY_FR_D)
      [] casting = "safe" ->
             IF src_unit = NPY_FR_GENERIC \/ dst_unit = NPY_FR_GENERIC
             THEN src_unit = dst_unit
             ELSE /\ src_unit <= dst_unit
                  /\ \/ (src_unit <= NPY_FR_D /\ dst_unit <= NPY_FR_D)
                     \/ (src_unit > NPY_FR_D /\ dst_unit > NPY_FR_D)
      [] OTHER -> src_unit = dst_unit

\* can_cast_timedelta64_units with the barrier of the datetime rules.
can_cast_timedelta64_units_DateBarrier(src_unit, dst_unit, casting) ==
    CASE casting = "unsafe" -> TRUE
      [] casting = "same_kind" ->
             IF src_unit = NPY_FR_GENERIC \/ dst_unit = NPY_FR_GENERIC
             THEN src_unit = dst_unit
             ELSE \/ src_unit <= NPY_FR_D /\ dst_unit <= NPY_FR_D
                  \/ src_unit > NPY_FR_D /\ dst_unit > NPY_FR_D
      [] casting = "safe" ->
             IF src_unit = NPY_FR_GENERIC \/ dst_unit = NPY_FR_GENERIC
             THEN src_unit = dst_unit
             ELSE /\ src_unit <= dst_unit
                  /\ \/ src_unit <= NPY_FR_D /\ dst_unit <= NPY_FR_D
                     \/ src_unit > NPY_FR_D /\ dst_unit > NPY_FR_D
      [] OTHER -> src_unit = dst_unit

can_cast_timedelta64_units(src_unit, dst_unit, casting) ==
    CASE casting = "unsafe" -> TRUE
      [] casting = "same_kind" ->
             IF src_unit = NPY_FR_GENERIC \/ dst_unit = NPY_FR_GENERIC
             THEN src_unit = dst_unit
             ELSE \/ (src_unit <= NPY_FR_M /\ dst_unit <= NPY_FR_M)
                  \/ (src_unit > NPY_FR_M /\ dst_unit > NPY_FR_M)
      [] casting = "safe" ->
             IF src_unit = NPY_FR_GENERIC \/ dst_unit = NPY_FR_GENERIC
             THEN src_unit = dst_unit
             ELSE /\ src_unit <= dst_unit
                  /\ \/ (src_unit <= NPY_FR_M /\ dst_unit <= NPY_FR_M)
                     \/ (src_unit > NPY_FR_M /\ dst_unit > NPY_FR_M)
      [] OTHER -> src_unit = dst_unit

can_cast_datetime64_metadata(src_meta, dst_meta, casting) ==
    CASE casting = "unsafe" -> TRUE
      [] casting = "same_kind" ->
             can_cast_datetime64_units(src_meta.base, dst_meta.base, casting)
      [] casting = "safe" ->
             /\ can_cast_datetime64_units(src_meta.base, dst_meta.base, casting)
             /\ datetime_metadata_divides(src_meta, dst_meta, FALSE)
      [] OTHER -> src_meta.base = dst_meta.base /\ src_meta.num = dst_meta.num

can_cast_timedelta64_metadata(src_meta, dst_meta, casting) ==
    CASE casting = "unsafe" -> TRUE
      [] casting = "same_kind" ->
             can_cast_timedelta64_units(src_meta.base, dst_meta.base, casting)
      [] casting = "safe" ->
             /\ can_cast_timedelta64_units(src_meta.base, dst_meta.base, casting)
             /\ datetime_metadata_divides(src_meta, dst_meta, TRUE)
      [] OTHER -> src_meta.base = dst_meta.base /\ src_meta.num = dst_meta.num

\* The comparison of has_equivalent_datetime_metadata, for two descriptors
\* that are both datetime or timedelta.
has_equivalent_datetime_metadata(meta1, meta2) ==
    IF meta1.base = NPY_FR_GENERIC /\ meta2.base = NPY_FR_GENERIC THEN TRUE
    ELSE meta1.base = meta2.base /\ meta1.num = meta2.num

----------------------------------------------------------------------------
(* The metadata GCD.                                                       *)

\* The branches of the unit validation that end in incompatible_units.
GcdIncompatible(meta1, meta2, strict1, strict2) ==
    IF meta1.base = NPY_FR_Y THEN meta2.base # NPY_FR_M /\ strict1
    ELSE IF meta1.base = NPY_FR_B \/ meta2.base = NPY_FR_B
    THEN strict1 \/ strict2
    ELSE IF meta2.base = NPY_FR_Y THEN meta1.base # NPY_FR_M /\ strict2
    ELSE IF meta1.base = NPY_FR_M THEN strict1
    ELSE IF meta2.base = NPY_FR_M THEN strict2
    ELSE FALSE

\* [status, err, out]: status 0 with the metadata, or -1 with the exception.
compute_datetime_metadata_greatest_common_divisor(meta1, meta2, strict_with_nonlinear_units1, strict_with_nonlinear_units2) ==
    IF meta1.base = NPY_FR_GENERIC
    THEN [status |-> 0, err |-> "", out |-> meta2]
    ELSE IF meta2.base = NPY_FR_GENERIC
    THEN [status |-> 0, err |-> "", out |-> meta1]
    ELSE IF meta1.base # meta2.base
            /\ GcdIncompatible(meta1, meta2, strict_with_nonlinear_units1,
                               strict_with_nonlinear_units2)
    THEN [status |-> -1, err |-> "TypeError"]
    ELSE
    LET same == meta1.base = meta2.base
        num1a == IF meta1.base = NPY_FR_Y /\ meta2.base = NPY_FR_M
                 THEN U64Mul(NFromInt(meta1.num), NFromInt(12))
                 ELSE NFromInt(meta1.num)
        num2a == IF meta2.base = NPY_FR_Y /\ meta1.base = NPY_FR_M
                 THEN U64Mul(NFromInt(meta2.num), NFromInt(12))
                 ELSE NFromInt(meta2.num)
        greater == meta1.base > meta2.base
        base == IF greater THEN meta1.base ELSE meta2.base
        num2 == IF ~same /\ greater
                THEN U64Mul(num2a, get_datetime_units_factor(meta2.base,
                                                             meta1.base))
                ELSE num2a
        num1 == IF ~same /\ ~greater
                THEN U64Mul(num1a, get_datetime_units_factor(meta1.base,
                                                             meta2.base))
                ELSE num1a
    IN  IF ~same /\ ((greater /\ Len(num2) = 0) \/ (~greater /\ Len(num1) = 0))
        THEN [status |-> -1, err |-> "OverflowError"]
        ELSE LET num == _uint64_euclidean_gcd(num1, num2)
             IN  IF Len(num) = 0 \/ ~NLt(num, Two31)
                 THEN [status |-> -1, err |-> "OverflowError"]
                 ELSE [status |-> 0, err |-> "",
                       out |-> Meta(base, NToInt(num))]

----------------------------------------------------------------------------
(* The value casts.                                                        *)

\* [status, out, overflow]: on failure the destination is set to NaT.
cast_datetime_to_datetime(src_meta, dst_meta, src_dt) ==
    IF src_meta.base = dst_meta.base /\ src_meta.num = dst_meta.num
    THEN [status |-> 0, out |-> src_dt, overflow |-> FALSE]
    ELSE Bind(convert_datetime_to_datetimestruct(src_meta, src_dt), LAMBDA d :
         IF d.status < 0
         THEN [status |-> -1, out |-> NPY_DATETIME_NAT, overflow |-> FALSE]
         ELSE Bind(convert_datetimestruct_to_datetime(dst_meta, d.out),
                   LAMBDA v :
              IF v.status < 0
              THEN [status |-> -1, out |-> NPY_DATETIME_NAT,
                    overflow |-> d.overflow]
              ELSE [status |-> 0, out |-> v.out,
                    overflow |-> d.overflow \/ v.overflow]))

\* "Apply the scaling": the exact value of each step of the expression, and
\* whether a step leaves npy_int64 (signed overflow) or divides by zero.
ScaleSteps(src_dt, num, denom) ==
    Bind(IMul(src_dt, num), LAMBDA prod :
    Bind(IF src_dt.neg THEN ISub(prod, ISub(denom, IOne)) ELSE prod,
         LAMBDA shifted :
    [overflow |-> ~InInt64(prod) \/ ~InInt64(shifted),
     divzero |-> denom = IZero,
     wrapped |-> WrapI64(IF src_dt.neg
                         THEN ISub(WrapI64(prod), ISub(denom, IOne))
                         ELSE prod)]))

\* An outcome of cast_timedelta_to_timedelta: the return value, whether
\* *dst_dt was written and with what, whether the scaling was undefined in C
\* (overflow), and whether the call trapped instead of returning.
TdOutcome(status, written, out, overflow, trap) ==
    [status |-> status, written |-> written, out |-> out,
     overflow |-> overflow, trap |-> trap]

\* The set of outcomes of cast_timedelta_to_timedelta.  Where the scaling
\* is undefined in C (signed overflow, division by zero) the outcomes are
\* those of the builds: the two's complement result or a trap for an
\* overflow, a trap for the division.
cast_timedelta_to_timedelta(src_meta, dst_meta, src_dt) ==
    IF src_meta.base = dst_meta.base /\ src_meta.num = dst_meta.num
    THEN {TdOutcome(0, TRUE, src_dt, FALSE, FALSE)}
    ELSE Bind(get_datetime_conversion_factor(src_meta, dst_meta), LAMBDA f :
         IF f.ub THEN {TdOutcome(0, FALSE, IZero, TRUE, TRUE)}
         ELSE IF f.num = IZero
         THEN {TdOutcome(-1, FALSE, IZero, FALSE, FALSE)}
         ELSE Bind(ScaleSteps(src_dt, f.num, f.denom), LAMBDA st :
              IF st.divzero
              THEN {TdOutcome(0, FALSE, IZero, TRUE, TRUE)}
              ELSE Bind(CDivI(st.wrapped, f.denom), LAMBDA q :
                   IF st.overflow
                   THEN {TdOutcome(0, TRUE, q, TRUE, FALSE),
                         TdOutcome(0, FALSE, IZero, TRUE, TRUE)}
                   ELSE {TdOutcome(0, TRUE, q, FALSE, FALSE)})))

----------------------------------------------------------------------------
VARIABLES pc, op, arg, ret

vars == <<pc, op, arg, ret>>

None == [none |-> TRUE]

----------------------------------------------------------------------------
(* The calendar kernel applied to a day offset and back.                   *)

DaySpan == 73100

CalInit ==
    /\ pc = "call"
    /\ op = "days"
    /\ arg \in [days : (-DaySpan) .. DaySpan]
    /\ ret = None

CalSetDays ==
    /\ pc = "call" /\ op = "days"
    /\ ret' = [dts |-> set_datetimestruct_days(arg.days, ZeroStruct)]
    /\ pc' = "struct"
    /\ UNCHANGED <<op, arg>>

CalGetDays ==
    /\ pc = "struct" /\ op = "days"
    /\ ret' = [dts |-> ret.dts, days |-> get_datetimestruct_days(ret.dts)]
    /\ pc' = "done"
    /\ UNCHANGED <<op, arg>>

CalNext == CalSetDays \/ CalGetDays

SpecCal == CalInit /\ [][CalNext]_vars

ValidDate(dts) ==
    /\ dts.month \in 1 .. 12
    /\ dts.day >= 1
    /\ dts.day <= month_lengths_of(IToInt(dts.year))[dts.month]

\* C3 as stated: for every day offset d of the range,
\* set_datetimestruct_days(d) is a valid proleptic-Gregorian date and
\* get_datetimestruct_days of it is d; day 0 is 1970-01-01 and 2000-02-29 is
\* day 10957.
C3_Original ==
    pc = "done" /\ op = "days" =>
        /\ ValidDate(ret.dts)
        /\ ret.days = arg.days
        /\ (arg.days = 0 =>
              ret.dts.year = I(1970) /\ ret.dts.month = 1 /\ ret.dts.day = 1)
        /\ (arg.days = 10957 =>
              ret.dts.year = I(2000) /\ ret.dts.month = 2 /\ ret.dts.day = 29)

\* C3 (amended): for every day offset d of the range,
\* set_datetimestruct_days(d) is a valid proleptic-Gregorian date and
\* get_datetimestruct_days of it is d; day 0 is 1970-01-01, day 10957 is
\* 2000-01-01 and 2000-02-29 is day 11016.
C3_CalendarInverse ==
    pc = "done" /\ op = "days" =>
        /\ ValidDate(ret.dts)
        /\ ret.days = arg.days
        /\ (arg.days = 0 =>
              ret.dts.year = I(1970) /\ ret.dts.month = 1 /\ ret.dts.day = 1)
        /\ (arg.days = 10957 =>
              ret.dts.year = I(2000) /\ ret.dts.month = 1 /\ ret.dts.day = 1)
        /\ (ret.dts.year = I(2000) /\ ret.dts.month = 2 /\ ret.dts.day = 29
              <=> arg.days = 11016)

\* A day before 1970 in the century year 1900 (28 February, the last day of
\* its February) has been produced from its offset and converted back.
C3_Witness ==
    /\ pc = "done" /\ op = "days" /\ arg.days < 0
    /\ ret.dts.year = I(1900) /\ ret.dts.month = 2 /\ ret.dts.day = 28
    /\ ret.days = arg.days

----------------------------------------------------------------------------
(* A broken-down struct converted to a value and back.                     *)

YearSpan == 2

CodecYears ==
    (1970 - YearSpan .. 1970 + YearSpan) \cup {1600, 1899, 1900, 2000, 2400}

\* The validity the code checks on a struct built from an object
\* (convert_pydatetime_to_datetimestruct): month, day of the month, hour,
\* minute, second below 60, microsecond.
ValidStruct(dts) ==
    /\ dts.year # NPY_DATETIME_NAT
    /\ ValidDate(dts)
    /\ dts.hour \in 0 .. 23
    /\ dts.min \in 0 .. 59
    /\ dts.sec \in 0 .. 59
    /\ dts.us \in 0 .. 999999
    /\ dts.ps \in 0 .. 999999
    /\ dts.as \in 0 .. 999999

CodecClock ==
    { <<0, 0, 0>>, <<23, 59, 59>>, <<12, 30, 15>>, <<0, 59, 0>> }

CodecSubsec ==
    { <<0, 0, 0>>, <<999, 0, 1>>, <<1000, 999999, 0>>, <<999999, 123456, 654321>> }

CodecStructs ==
    { d \in { [year |-> I(y), month |-> mo, day |-> dd, hour |-> c[1],
               min |-> c[2], sec |-> c[3], us |-> f[1], ps |-> f[2], as |-> f[3]] :
                 y \in CodecYears, mo \in {1, 2, 3, 12}, dd \in {1, 28, 29, 31},
                 c \in CodecClock, f \in CodecSubsec } :
        ValidStruct(d) }

CodecInit ==
    /\ pc = "call"
    /\ op = "struct_roundtrip"
    /\ arg \in [meta : {Meta(u, 1) : u \in NPY_FR_Y .. NPY_FR_us} \ {Meta(NPY_FR_W, 1), Meta(NPY_FR_B, 1)},
                dts : CodecStructs]
    /\ ret = None

CodecStructToValue ==
    /\ pc = "call" /\ op = "struct_roundtrip"
    /\ ret' = [value |-> convert_datetimestruct_to_datetime(arg.meta, arg.dts)]
    /\ pc' = "value"
    /\ UNCHANGED <<op, arg>>

CodecValueToStruct ==
    /\ pc = "value" /\ op = "struct_roundtrip"
    /\ ret.value.status = 0
    /\ ret' = [value |-> ret.value,
               back |-> convert_datetime_to_datetimestruct(arg.meta, ret.value.out)]
    /\ pc' = "done"
    /\ UNCHANGED <<op, arg>>

CodecNext == CodecStructToValue \/ CodecValueToStruct

SpecCodec == CodecInit /\ [][CodecNext]_vars

\* S with every field finer than the unit reset to its minimum.
TruncateToUnit(S, u) ==
    [year |-> S.year,
     month |-> IF u >= NPY_FR_M THEN S.month ELSE 1,
     day |-> IF u >= NPY_FR_D THEN S.day ELSE 1,
     hour |-> IF u >= NPY_FR_h THEN S.hour ELSE 0,
     min |-> IF u >= NPY_FR_m THEN S.min ELSE 0,
     sec |-> IF u >= NPY_FR_s THEN S.sec ELSE 0,
     us |-> IF u >= NPY_FR_us THEN S.us
            ELSE IF u = NPY_FR_ms THEN S.us - (S.us % 1000)
            ELSE 0,
     ps |-> 0,
     as |-> 0]

LastSecondOf1969 ==
    [year |-> I(1969), month |-> 12, day |-> 31, hour |-> 23, min |-> 59,
     sec |-> 59, us |-> 0, ps |-> 0, as |-> 0]

----------------------------------------------------------------------------
(* Two values cast from one metadata to another.                           *)

ValSpan == 2

CastMults == {1, 5}

CastMetas == {Meta(u, n) : u \in Units, n \in CastMults}

CastValues == {NPY_DATETIME_NAT} \cup {I(v) : v \in (-ValSpan) .. ValSpan}

CastInit ==
    /\ pc = "call"
    /\ op \in {"cast_datetime", "cast_timedelta"}
    /\ arg \in { a \in [src : CastMetas, dst : CastMetas,
                        v1 : CastValues, v2 : CastValues] :
                   ILe(a.v1, a.v2) }
    /\ ret = None

CastDatetime ==
    /\ pc = "call" /\ op = "cast_datetime"
    /\ ret' = [r1 |-> cast_datetime_to_datetime(arg.src, arg.dst, arg.v1),
               r2 |-> cast_datetime_to_datetime(arg.src, arg.dst, arg.v2)]
    /\ pc' = "done"
    /\ UNCHANGED <<op, arg>>

CastTimedelta ==
    /\ pc = "call" /\ op = "cast_timedelta"
    /\ \E o1 \in cast_timedelta_to_timedelta(arg.src, arg.dst, arg.v1) :
       \E o2 \in cast_timedelta_to_timedelta(arg.src, arg.dst, arg.v2) :
          ret' = [r1 |-> o1, r2 |-> o2]
    /\ pc' = "done"
    /\ UNCHANGED <<op, arg>>

CastNext == CastDatetime \/ CastTimedelta

SpecCast == CastInit /\ [][CastNext]_vars

CastDone == pc = "done" /\ op \in {"cast_datetime", "cast_timedelta"}

\* C2 as stated: a cast of NaT, by cast_datetime_to_datetime and by
\* cast_timedelta_to_timedelta, between any two metadata returns success
\* with the result NaT.
C2_NaTAbsorbing ==
    CastDone /\ arg.v1 = NPY_DATETIME_NAT =>
        /\ ret.r1.status = 0
        /\ ret.r1.out = NPY_DATETIME_NAT
        /\ (op = "cast_timedelta" => ret.r1.written /\ ~ret.r1.trap)

\* The cast of v1 succeeded with a defined value that is not NaT.
CastGood(r, v) ==
    /\ v # NPY_DATETIME_NAT
    /\ r.status = 0
    /\ ~r.overflow
    /\ r.out # NPY_DATETIME_NAT

CastSafe ==
    IF op = "cast_datetime"
    THEN can_cast_datetime64_metadata(arg.src, arg.dst, "safe")
    ELSE can_cast_timedelta64_metadata(arg.src, arg.dst, "safe")

\* C5 as stated: whenever the Safe rule permits the cast from src to dst,
\* two distinct non-NaT values that are cast without overflow have distinct
\* results.
C5_SafeCastInjective ==
    CastDone /\ CastSafe /\ arg.v1 # arg.v2
             /\ CastGood(ret.r1, arg.v1) /\ CastGood(ret.r2, arg.v2) =>
        ret.r1.out # ret.r2.out

----------------------------------------------------------------------------
(* The conversion factor between two metadata.                             *)

MaxFactorMult == 4

FactorMetas == {Meta(u, n) : u \in Units, n \in 1 .. MaxFactorMult}

FactorInit ==
    /\ pc = "call"
    /\ op = "conversion_factor"
    /\ arg \in [src : FactorMetas, dst : FactorMetas]
    /\ ret = None

ConversionFactor ==
    /\ pc = "call" /\ op = "conversion_factor"
    /\ ret' = get_datetime_conversion_factor(arg.src, arg.dst)
    /\ pc' = "done"
    /\ UNCHANGED <<op, arg>>

\* The same call with the two metadata exchanged.
ConversionFactorReverse ==
    /\ pc = "done" /\ op = "conversion_factor"
    /\ ret' = [fwd |-> ret,
               rev |-> get_datetime_conversion_factor(arg.dst, arg.src)]
    /\ pc' = "both"
    /\ UNCHANGED <<op, arg>>

FactorNext == ConversionFactor \/ ConversionFactorReverse

SpecFactor == FactorInit /\ [][FactorNext]_vars

\* The exact product of the table factors from unit a down to the finer
\* unit b, without any limit on its size.
RECURSIVE LinearR(_, _)
LinearR(a, b) ==
    IF b > a THEN NMulLimb(LinearR(a + 1, b), _datetime_factors[a + 1])
    ELSE <<1>>

\* R(big, little) for big <= little as the exact fraction <<num, den>>.
RatioR(big, little) ==
    IF big = little THEN <<(<<1>>), (<<1>>)>>
    ELSE IF big = NPY_FR_Y /\ little = NPY_FR_M
    THEN <<NFromInt(12), <<1>>>>
    ELSE IF big = NPY_FR_Y /\ little = NPY_FR_W
    THEN <<NFromInt(146097), NFromInt(2800)>>
    ELSE IF big = NPY_FR_Y
    THEN <<NMul(NFromInt(146097), LinearR(NPY_FR_D, little)), NFromInt(400)>>
    ELSE IF big = NPY_FR_M /\ little = NPY_FR_W
    THEN <<NFromInt(146097), NFromInt(33600)>>
    ELSE IF big = NPY_FR_M
    THEN <<NMul(NFromInt(146097), LinearR(NPY_FR_D, little)), NFromInt(4800)>>
    ELSE <<LinearR(big, little), <<1>>>>

\* src_mult * R(src_unit, dst_unit) / dst_mult as the exact fraction
\* <<num, den>>, not reduced.
ExactFactor(src, dst) ==
    IF src.base <= dst.base
    THEN LET r == RatioR(src.base, dst.base)
         IN  <<NMulLimb(r[1], src.num), NMulLimb(r[2], dst.num)>>
    ELSE LET r == RatioR(dst.base, src.base)
         IN  <<NMulLimb(r[2], src.num), NMulLimb(r[1], dst.num)>>

\* The unit factor that the conversion of the pair asks for is computed
\* without the overflow report of get_datetime_units_factor.
UnitFactorFits(src, dst) ==
    LET big == IF src.base <= dst.base THEN src.base ELSE dst.base
        little == IF src.base <= dst.base THEN dst.base ELSE src.base
        from == IF big \in {NPY_FR_Y, NPY_FR_M} THEN NPY_FR_D ELSE big
    IN  Len(get_datetime_units_factor(from, little)) # 0

FactorDone == pc = "done" /\ op = "conversion_factor"

\* C4 as stated: for two non-Generic metadata with small multipliers whose
\* unit factor does not overflow, conversion_factor returns num > 0 and
\* den > 0 with gcd(num, den) = 1 and num/den equal to
\* src_mult * R(src_unit, dst_unit) / dst_mult; (Y/1, D/1) gives
\* (146097, 400) and (W/1, D/1) gives (7, 1).
C4_ConversionFactor ==
    FactorDone /\ arg.src.base # NPY_FR_GENERIC
               /\ arg.dst.base # NPY_FR_GENERIC
               /\ UnitFactorFits(arg.src, arg.dst) =>
        /\ ret.err = "" /\ ~ret.ub
        /\ ILt(IZero, ret.num) /\ ILt(IZero, ret.denom)
        /\ _uint64_euclidean_gcd(ret.num.mag, ret.denom.mag) = <<1>>
        /\ (arg.src.base # NPY_FR_B /\ arg.dst.base # NPY_FR_B =>
              LET e == ExactFactor(arg.src, arg.dst)
              IN  NMul(ret.num.mag, e[2]) = NMul(ret.denom.mag, e[1]))
        /\ (arg.src = Meta(NPY_FR_Y, 1) /\ arg.dst = Meta(NPY_FR_D, 1) =>
              ret.num = I(146097) /\ ret.denom = I(400))
        /\ (arg.src = Meta(NPY_FR_W, 1) /\ arg.dst = Meta(NPY_FR_D, 1) =>
              ret.num = I(7) /\ ret.denom = I(1))

----------------------------------------------------------------------------
(* The cast rules on a pair of metadata.                                   *)

MaxRuleMult == 4

RuleMults == (1 .. MaxRuleMult) \cup {7, 60}

RuleMetas == {Meta(u, n) : u \in Units, n \in RuleMults}

RuleInit ==
    /\ pc = "call"
    /\ op \in {"can_cast_datetime64", "can_cast_timedelta64"}
    /\ arg \in [src : RuleMetas, dst : RuleMetas, casting : Castings]
    /\ ret = None

CanCastDatetime ==
    /\ pc = "call" /\ op = "can_cast_datetime64"
    /\ ret' = [units |-> can_cast_datetime64_units(arg.src.base, arg.dst.base,
                                                   arg.casting),
               meta |-> can_cast_datetime64_metadata(arg.src, arg.dst,
                                                     arg.casting),
               same_kind |-> can_cast_datetime64_metadata(arg.src, arg.dst,
                                                          "same_kind"),
               equivalent |-> has_equivalent_datetime_metadata(arg.src,
                                                               arg.dst)]
    /\ pc' = "done"
    /\ UNCHANGED <<op, arg>>

CanCastTimedelta ==
    /\ pc = "call" /\ op = "can_cast_timedelta64"
    /\ ret' = [units |-> can_cast_timedelta64_units(arg.src.base,
                                                    arg.dst.base, arg.casting),
               meta |-> can_cast_timedelta64_metadata(arg.src, arg.dst,
                                                      arg.casting),
               same_kind |-> can_cast_timedelta64_metadata(arg.src, arg.dst,
                                                           "same_kind"),
               equivalent |-> has_equivalent_datetime_metadata(arg.src,
                                                               arg.dst)]
    /\ pc' = "done"
    /\ UNCHANGED <<op, arg>>

RuleNext == CanCastDatetime \/ CanCastTimedelta

SpecRules == RuleInit /\ [][RuleNext]_vars

RuleDone == pc = "done" /\ op \in {"can_cast_datetime64", "can_cast_timedelta64"}

RuleStrict == op = "can_cast_timedelta64"

\* C6 as stated: at the Safe level the cast is allowed exactly when it is
\* allowed at SameKind, src_unit <= dst_unit, and metadata_divides holds
\* with dst as the dividend and src as the divisor, strict for timedelta
\* only.
C6_Original ==
    RuleDone /\ arg.casting = "safe" =>
        (ret.meta <=> /\ ret.same_kind
                      /\ arg.src.base <= arg.dst.base
                      /\ datetime_metadata_divides(arg.dst, arg.src, RuleStrict))

\* C6 with the operands as the code passes them: at the Safe level the
\* cast is allowed exactly when it is allowed at SameKind,
\* src_unit <= dst_unit, and metadata_divides holds with src as the
\* dividend and dst as the divisor, strict for timedelta only.
C6_SafeRule ==
    RuleDone /\ arg.casting = "safe" =>
        (ret.meta <=> /\ ret.same_kind
                      /\ arg.src.base <= arg.dst.base
                      /\ datetime_metadata_divides(arg.src, arg.dst, RuleStrict))

\* A Safe cast towards a finer unit that the division admits with a
\* multiplier other than 1, and that the stated operand order refuses.
C6_Witness ==
    /\ RuleDone /\ op = "can_cast_datetime64" /\ arg.casting = "safe"
    /\ arg.src = Meta(NPY_FR_h, 1) /\ arg.dst = Meta(NPY_FR_m, 4)
    /\ ret.meta
    /\ ~datetime_metadata_divides(arg.dst, arg.src, RuleStrict)

DateSide == {NPY_FR_Y, NPY_FR_M, NPY_FR_W, NPY_FR_B, NPY_FR_D}

NonlinearSide == {NPY_FR_Y, NPY_FR_M}

SameSide(side, u1, u2) == (u1 \in side) <=> (u2 \in side)

\* C7: Unsafe always allows the cast; SameKind allows it exactly when both
\* units are Generic, or neither is and both lie on the same side of the
\* partition ({Y, M, W, B, D} for datetime, {Y, M} for timedelta), whatever
\* the multipliers; h -> m is allowed and datetime D -> h is refused.
C7_SameKindUnsafe ==
    RuleDone =>
        /\ arg.casting = "unsafe" => ret.meta /\ ret.units
        /\ arg.casting = "same_kind" =>
             LET u1 == arg.src.base
                 u2 == arg.dst.base
                 side == IF op = "can_cast_datetime64" THEN DateSide
                         ELSE NonlinearSide
                 allowed == \/ u1 = NPY_FR_GENERIC /\ u2 = NPY_FR_GENERIC
                            \/ /\ u1 # NPY_FR_GENERIC /\ u2 # NPY_FR_GENERIC
                               /\ SameSide(side, u1, u2)
             IN  /\ ret.meta = allowed /\ ret.units = allowed
                 /\ (u1 = NPY_FR_h /\ u2 = NPY_FR_m => ret.meta)
                 /\ (op = "can_cast_datetime64" /\ u1 = NPY_FR_D
                       /\ u2 = NPY_FR_h => ~ret.meta)

\* A timedelta cast from days to hours with unequal multipliers, permitted
\* at SameKind where the datetime rule refuses it.
C7_Witness ==
    /\ RuleDone /\ op = "can_cast_timedelta64" /\ arg.casting = "same_kind"
    /\ arg.src = Meta(NPY_FR_D, 3) /\ arg.dst = Meta(NPY_FR_h, 7)
    /\ ret.meta
    /\ ~can_cast_datetime64_metadata(arg.src, arg.dst, "same_kind")

----------------------------------------------------------------------------
(* The metadata GCD of a pair, taken in both operand orders.               *)

MaxGcdMult == 3

GcdMults == (1 .. MaxGcdMult) \cup {7, 400}

GcdMetas == {Meta(u, n) : u \in Units, n \in GcdMults}

GcdInit ==
    /\ pc = "call"
    /\ op = "gcd_metadata"
    /\ arg \in [meta1 : GcdMetas, meta2 : GcdMetas,
                strict1 : BOOLEAN, strict2 : BOOLEAN]
    /\ ret = None

GcdForward ==
    /\ pc = "call" /\ op = "gcd_metadata"
    /\ ret' = [fwd |-> compute_datetime_metadata_greatest_common_divisor(
                           arg.meta1, arg.meta2, arg.strict1, arg.strict2)]
    /\ pc' = "forward"
    /\ UNCHANGED <<op, arg>>

GcdReverse ==
    /\ pc = "forward" /\ op = "gcd_metadata"
    /\ ret' = [fwd |-> ret.fwd,
               rev |-> compute_datetime_metadata_greatest_common_divisor(
                           arg.meta2, arg.meta1, arg.strict2, arg.strict1)]
    /\ pc' = "done"
    /\ UNCHANGED <<op, arg>>

GcdNext == GcdForward \/ GcdReverse

SpecGcd == GcdInit /\ [][GcdNext]_vars

GcdDone == pc = "done" /\ op = "gcd_metadata"

\* C9 as stated: gcd_metadata(a, b, strict_a, strict_b) and
\* gcd_metadata(b, a, strict_b, strict_a) both fail with the same error
\* kind or both succeed with the same unit and multiplier.
C9_GcdCommutative ==
    GcdDone =>
        /\ ret.fwd.status = ret.rev.status
        /\ ret.fwd.err = ret.rev.err
        /\ (ret.fwd.status = 0 => ret.fwd.out = ret.rev.out)

LinearUnits == NPY_FR_W .. NPY_FR_as \ {NPY_FR_B}

RECURSIVE GcdInt(_, _)
GcdInt(a, b) == IF b = 0 THEN a ELSE GcdInt(b, a % b)

\* C10 as stated: on two linear units the result is the finer unit with
\* the multiplier gcd(coarse_mult * units_factor(coarse, fine), fine_mult);
\* Generic with any metadata returns the other metadata; the same unit
\* gives the gcd of the multipliers, so gcd_metadata(a, a) = a; and an
\* overflowing units_factor fails with an overflow error.
C10_GcdLinear ==
    GcdDone =>
        LET a == arg.meta1
            b == arg.meta2
            coarse == IF a.base <= b.base THEN a ELSE b
            fine == IF a.base <= b.base THEN b ELSE a
            factor == get_datetime_units_factor(coarse.base, fine.base)
            product == NMulLimb(LinearR(coarse.base, fine.base), coarse.num)
        IN  /\ a.base = NPY_FR_GENERIC =>
                 ret.fwd.status = 0 /\ ret.fwd.out = b
            /\ b.base = NPY_FR_GENERIC =>
                 ret.fwd.status = 0 /\ ret.fwd.out = a
            /\ a.base = b.base /\ a.base # NPY_FR_GENERIC =>
                 /\ ret.fwd.status = 0
                 /\ ret.fwd.out = Meta(a.base, GcdInt(a.num, b.num))
            /\ a = b => ret.fwd.status = 0 /\ ret.fwd.out = a
            /\ a.base \in LinearUnits /\ b.base \in LinearUnits
                  /\ a.base # b.base =>
                 IF Len(factor) = 0
                 THEN ret.fwd.status = -1 /\ ret.fwd.err = "OverflowError"
                 ELSE /\ ret.fwd.status = 0
                      /\ ret.fwd.out =
                           Meta(fine.base,
                                GcdInt(fine.num,
                                       NToInt(NMod(product,
                                                   NFromInt(fine.num)))))

YearMonthUnits == {NPY_FR_Y, NPY_FR_M}

\* The call pairs Y or M (as meta1 or as meta2) with a linear unit.
YearMonthWithFine ==
    \/ arg.meta1.base \in YearMonthUnits /\ arg.meta2.base \in LinearUnits
    \/ arg.meta2.base \in YearMonthUnits /\ arg.meta1.base \in LinearUnits

\* The strict flag of the Y/M operand of such a call.
YearMonthStrict ==
    IF arg.meta1.base \in YearMonthUnits THEN arg.strict1 ELSE arg.strict2

\* C11 as stated: on Y or M paired with a unit other than Y, M and B, a set
\* strict flag of the Y/M operand fails with the incompatible-units error;
\* otherwise the result is the finer unit with the multiplier
\* gcd(m1.mult, m2.mult) of the multipliers as given, no factor applied.
C11_YearMonthWithFine ==
    GcdDone /\ YearMonthWithFine =>
        IF YearMonthStrict
        THEN ret.fwd.status = -1 /\ ret.fwd.err = "TypeError"
        ELSE /\ ret.fwd.status = 0
             /\ ret.fwd.out =
                  Meta(IF arg.meta1.base > arg.meta2.base
                       THEN arg.meta1.base ELSE arg.meta2.base,
                       GcdInt(arg.meta1.num, arg.meta2.num))

\* Exactly one of the two units is B and the other is not Generic.
OneBusinessDay ==
    /\ (arg.meta1.base = NPY_FR_B) # (arg.meta2.base = NPY_FR_B)
    /\ arg.meta1.base # NPY_FR_GENERIC
    /\ arg.meta2.base # NPY_FR_GENERIC

\* C12 as stated: on a pair with exactly one unit B, a set strict flag on
\* either side fails with the incompatible-units error; with both flags
\* clear the call gives the finer of the two units, D in place of B, so
\* the result unit is never B.
C12_BusinessDayPairs ==
    GcdDone /\ OneBusinessDay =>
        IF arg.strict1 \/ arg.strict2
        THEN ret.fwd.status = -1 /\ ret.fwd.err = "TypeError"
        ELSE ret.fwd.status = 0 =>
                 /\ ret.fwd.out.base # NPY_FR_B
                 /\ ret.fwd.out.base =
                      (IF arg.meta1.base > NPY_FR_B \/ arg.meta2.base > NPY_FR_B
                       THEN (IF arg.meta1.base > arg.meta2.base
                             THEN arg.meta1.base ELSE arg.meta2.base)
                       ELSE NPY_FR_D)

----------------------------------------------------------------------------
(* Overflow of the unit factor inside the conversion factor.               *)

\* C13 as stated: when the unit factor of the pair overflows, the
\* conversion factor is (0, 0) with an OverflowError set and
\* cast_timedelta_to_timedelta fails without dividing by zero; and the
\* conversion factor never has exactly one of num, denom equal to 0.
C13_FactorOverflow ==
    CastDone /\ op = "cast_timedelta"
             /\ arg.src.base # NPY_FR_GENERIC
             /\ arg.dst.base # NPY_FR_GENERIC =>
        Bind(get_datetime_conversion_factor(arg.src, arg.dst), LAMBDA f :
        /\ (f.num = IZero) = (f.denom = IZero)
        /\ (~UnitFactorFits(arg.src, arg.dst) =>
              /\ f.num = IZero /\ f.denom = IZero
              /\ f.err = "OverflowError"
              /\ ret.r1.status = -1
              /\ ~ret.r1.trap))

\* C14 as stated: for every src, dst and strict flag, if
\* metadata_divides(dst, src, strict) holds, dst the dividend and src the
\* divisor, then two distinct non-NaT values that are cast from src to dst
\* without overflow have distinct results.
C14_CastMonotone ==
    \A strict \in BOOLEAN :
        CastDone /\ datetime_metadata_divides(arg.dst, arg.src, strict)
                 /\ arg.v1 # arg.v2
                 /\ CastGood(ret.r1, arg.v1) /\ CastGood(ret.r2, arg.v2) =>
            ret.r1.out # ret.r2.out

----------------------------------------------------------------------------
(* The conversion factors of the two directions of a pair.                 *)

FactorBoth ==
    /\ pc = "both" /\ op = "conversion_factor"
    /\ arg.src.base # NPY_FR_GENERIC /\ arg.dst.base # NPY_FR_GENERIC
    /\ UnitFactorFits(arg.src, arg.dst)

\* C15 as stated: conversion_factor(a, b).num * conversion_factor(b, a).den
\* = conversion_factor(a, b).den * conversion_factor(b, a).num.
C15_Original ==
    FactorBoth =>
        IMul(ret.fwd.num, ret.rev.denom) = IMul(ret.fwd.denom, ret.rev.num)

\* C15: the factors of the two directions are reciprocal,
\* conversion_factor(a, b).num * conversion_factor(b, a).num
\* = conversion_factor(a, b).den * conversion_factor(b, a).den, and for
\* a reduced pair the second is the first with num and den exchanged.
C15_Reciprocal ==
    FactorBoth =>
        /\ IMul(ret.fwd.num, ret.rev.num) = IMul(ret.fwd.denom, ret.rev.denom)
        /\ ret.rev.num = ret.fwd.denom
        /\ ret.rev.denom = ret.fwd.num

C15_Witness ==
    /\ FactorBoth
    /\ arg.src = Meta(NPY_FR_W, 1) /\ arg.dst = Meta(NPY_FR_D, 1)
    /\ ret.fwd.num = I(7) /\ ret.fwd.denom = I(1)
    /\ ret.rev.num = I(1) /\ ret.rev.denom = I(7)

----------------------------------------------------------------------------
(* Metadata from a denominator: convert_datetime_divisor_to_multiple.      *)
(* An int is 32 bits; meta->num *= q is a signed multiplication.           *)

Two32 == NPow2(32)

InInt32(x) == IF x.neg THEN NLe(x.mag, Two31) ELSE NLt(x.mag, Two31)

\* The two's complement int of an out-of-range signed product.
WrapI32(x) ==
    Bind(NMod(x.mag, Two32), LAMBDA r :
    Bind(IF x.neg /\ Len(r) # 0 THEN NSub(Two32, r) ELSE r, LAMBDA u :
    IF NLt(u, Two31) THEN NToInt(u)
    ELSE -NToInt(NSub(NSub(Two32, u), <<1>>)) - 1))

\* The rows of _multiples_table, two per unit: the factors to try and the
\* units they lead to.  The last pair serves every unit from s on; its
\* unit row is filled in by the call.
_multiples_table ==
    << <<12, 52, 365>>,
       <<NPY_FR_M, NPY_FR_W, NPY_FR_D>>,
       <<4, 30, 720>>,
       <<NPY_FR_W, NPY_FR_D, NPY_FR_h>>,
       <<5, 7, 168, 10080>>,
       <<NPY_FR_B, NPY_FR_D, NPY_FR_h, NPY_FR_m>>,
       <<24, 1440, 86400>>,
       <<NPY_FR_h, NPY_FR_m, NPY_FR_s>>,
       <<24, 1440, 86400>>,
       <<NPY_FR_h, NPY_FR_m, NPY_FR_s>>,
       <<60, 3600>>,
       <<NPY_FR_m, NPY_FR_s>>,
       <<60, 60000>>,
       <<NPY_FR_s, NPY_FR_ms>>,
       <<1000, 1000000>>,
       <<0, 0>> >>

\* ind: the index of the row of factors for a unit (0-based in the code).
MultiplesInd(base) ==
    IF base >= NPY_FR_s THEN (NPY_FR_s - NPY_FR_Y) * 2
    ELSE (base - NPY_FR_Y) * 2

\* num: how many entries of the row are tried.
MultiplesNum(base) ==
    IF base = NPY_FR_as THEN 0
    ELSE IF base = NPY_FR_as - 1 THEN 1
    ELSE IF base = NPY_FR_W THEN 4
    ELSE IF base > NPY_FR_D THEN 2
    ELSE 3

\* The loop over totry: the first i (0-based) with totry[i] % den = 0, or
\* num when there is none.  den is not 0.
RECURSIVE DivisorLoop(_, _, _, _)
DivisorLoop(totry, den, i, num) ==
    IF i < num /\ CMod(totry[i + 1], den) # 0
    THEN DivisorLoop(totry, den, i + 1, num)
    ELSE i

\* An outcome of a metadata construction: the return value, the exception,
\* the metadata left in *meta, whether the call trapped instead of
\* returning, and whether a signed multiplication overflowed.
MdOutcome(status, err, meta, trap, overflow) ==
    [status |-> status, err |-> err, meta |-> meta, trap |-> trap,
     overflow |-> overflow]

\* baseunit as the call reads it: the row of the table, with the two
\* entries the call has just written for a unit from s on.
BaseUnitRow(base) ==
    IF base >= NPY_FR_s THEN <<base + 1, base + 2>>
    ELSE _multiples_table[MultiplesInd(base) + 2]

\* The set of outcomes of convert_datetime_divisor_to_multiple.  A zero
\* den divides by zero in the first pass of the loop (a trap); an
\* overflowing meta->num *= q gives the two's complement product or a trap.
convert_datetime_divisor_to_multiple(meta, den) ==
    IF meta.base = NPY_FR_GENERIC
    THEN {MdOutcome(-1, "ValueError", meta, FALSE, FALSE)}
    ELSE
    Bind(_multiples_table[MultiplesInd(meta.base) + 1], LAMBDA totry :
    Bind(MultiplesNum(meta.base), LAMBDA num :
    IF num > 0 /\ den = 0
    THEN {MdOutcome(0, "", meta, TRUE, FALSE)}
    ELSE
    Bind(DivisorLoop(totry, den, 0, num), LAMBDA i :
    IF i = num
    THEN {MdOutcome(-1, "ValueError", meta, FALSE, FALSE)}
    ELSE
    Bind(IMul(I(meta.num), I(CDiv(totry[i + 1], den))), LAMBDA product :
    Bind(BaseUnitRow(meta.base)[i + 1], LAMBDA unit :
    IF InInt32(product)
    THEN {MdOutcome(0, "", Meta(unit, IToInt(product)), FALSE, FALSE)}
    ELSE {MdOutcome(0, "", Meta(unit, WrapI32(product)), FALSE, TRUE),
          MdOutcome(0, "", meta, TRUE, TRUE)})))))

----------------------------------------------------------------------------
(* convert_datetime_divisor_to_multiple on a metadata and a denominator.   *)

MaxDivMult == 3

\* Multipliers: the small ones and one whose product with a table factor
\* leaves the int range.
DivMults == (1 .. MaxDivMult) \cup {1000000000}

DivMetas == {Meta(u, n) : u \in Units, n \in DivMults}

DivDens == {2, 3, 4, 5, 7, 10, 11, 12, 24, 30, 52, 60, 365, 720, 1000,
            1440, 3600, 10080, 60000, 86400, 1000000}

DivInit ==
    /\ pc = "call"
    /\ op = "divisor_to_multiple"
    /\ arg \in [meta : DivMetas, den : DivDens]
    /\ ret = None

ConvertDivisor ==
    /\ pc = "call" /\ op = "divisor_to_multiple"
    /\ ret' \in convert_datetime_divisor_to_multiple(arg.meta, arg.den)
    /\ pc' = "done"
    /\ UNCHANGED <<op, arg>>

DivNext == ConvertDivisor

SpecDivisor == DivInit /\ [][DivNext]_vars

DivDone == pc = "done" /\ op = "divisor_to_multiple"

\* The finer alternatives of a unit in table order, each <<factor, unit>>:
\* none for Generic and as, as alone for fs.
DivisorAlternatives(u) ==
    IF u \in {NPY_FR_GENERIC, NPY_FR_as} THEN <<>>
    ELSE IF u = NPY_FR_fs THEN << <<1000, NPY_FR_as>> >>
    ELSE IF u >= NPY_FR_s THEN << <<1000, u + 1>>, <<1000000, u + 2>> >>
    ELSE [k \in 1 .. Len(_multiples_table[2 * u + 1]) |->
             <<_multiples_table[2 * u + 1][k], _multiples_table[2 * u + 2][k]>>]

\* C17 as stated: divisor_to_multiple on (u, n) and den > 1 takes the first
\* alternative of u in table order whose factor f has f mod den = 0 and
\* returns (that unit, n * f / den); with no such alternative, or u Generic
\* or as, it fails with an error and leaves the metadata unchanged;
\* M/1 with den 30 gives D/1.
C17_DivisorToMultiple ==
    DivDone /\ arg.den > 1 =>
        LET alts == DivisorAlternatives(arg.meta.base)
            hits == {k \in 1 .. Len(alts) : alts[k][1] % arg.den = 0}
        IN  /\ (hits = {} =>
                  /\ ret.status = -1 /\ ret.err # "" /\ ~ret.trap
                  /\ ret.meta = arg.meta)
            /\ (hits # {} =>
                  LET k == CHOOSE h \in hits : \A g \in hits : h <= g
                  IN  /\ ret.status = 0 /\ ~ret.trap
                      /\ ret.meta.base = alts[k][2]
                      /\ I(ret.meta.num) =
                           IMul(I(arg.meta.num), I(alts[k][1] \div arg.den)))
            /\ (arg.meta = Meta(NPY_FR_M, 1) /\ arg.den = 30 =>
                  ret.meta = Meta(NPY_FR_D, 1))

----------------------------------------------------------------------------
(* Metadata from text.  A C string is the sequence of its characters; the  *)
(* character past its end is the terminating NUL.                          *)

CharAt(s, i) == IF i \in 1 .. Len(s) THEN s[i] ELSE "NUL"

DecimalDigits == <<"0", "1", "2", "3", "4", "5", "6", "7", "8", "9">>

IsDigit(c) == \E k \in 1 .. 10 : DecimalDigits[k] = c

DigitValue(c) == (CHOOSE k \in 1 .. 10 : DecimalDigits[k] = c) - 1

IsSpace(c) == c \in {" ", "\t", "\n"}

RECURSIVE SkipSpaces(_, _)
SkipSpaces(s, i) == IF IsSpace(CharAt(s, i)) THEN SkipSpaces(s, i + 1) ELSE i

\* <<value, index after the last digit>> of the digits from index i.
RECURSIVE ReadDigits(_, _, _)
ReadDigits(s, i, acc) ==
    IF IsDigit(CharAt(s, i))
    THEN ReadDigits(s, i + 1, 10 * acc + DigitValue(CharAt(s, i)))
    ELSE <<acc, i>>

\* (int)strtol(s + nptr, &endptr, 10) for a number that fits an int: white
\* space is skipped, a sign is accepted, and endptr is nptr when there are
\* no digits.
strtol(s, nptr) ==
    Bind(SkipSpaces(s, nptr), LAMBDA i :
    Bind(IF CharAt(s, i) \in {"+", "-"} THEN i + 1 ELSE i, LAMBDA j :
    Bind(ReadDigits(s, j, 0), LAMBDA r :
    IF r[2] = j THEN [val |-> 0, endptr |-> nptr]
    ELSE [val |-> IF CharAt(s, i) = "-" THEN -r[1] ELSE r[1],
          endptr |-> r[2]])))

\* The unit of a unit string, -1 when it is none.
parse_datetime_unit_from_string(str) ==
    IF Len(str) = 1
    THEN CASE str[1] = "Y" -> NPY_FR_Y
           [] str[1] = "M" -> NPY_FR_M
           [] str[1] = "W" -> NPY_FR_W
           [] str[1] = "B" -> NPY_FR_B
           [] str[1] = "D" -> NPY_FR_D
           [] str[1] = "h" -> NPY_FR_h
           [] str[1] = "m" -> NPY_FR_m
           [] str[1] = "s" -> NPY_FR_s
           [] OTHER -> -1
    ELSE IF Len(str) = 2 /\ str[2] = "s"
    THEN CASE str[1] = "m" -> NPY_FR_ms
           [] str[1] = "u" -> NPY_FR_us
           [] str[1] = "n" -> NPY_FR_ns
           [] str[1] = "p" -> NPY_FR_ps
           [] str[1] = "f" -> NPY_FR_fs
           [] str[1] = "a" -> NPY_FR_as
           [] OTHER -> -1
    ELSE -1

\* The end of the unit: the first index from i that is the end of the
\* substring or holds '/'.
RECURSIVE UnitEnd(_, _, _)
UnitEnd(s, i, end) ==
    IF i < end /\ CharAt(s, i) # "/" THEN UnitEnd(s, i + 1, end) ELSE i

\* The optional denominator of the extended unit at index substr:
\* [bad, den].
ExtendedUnitDen(s, substr, end) ==
    IF substr < end /\ CharAt(s, substr) = "/"
    THEN Bind(strtol(s, substr + 1), LAMBDA d :
         IF d.endptr = substr + 1 \/ CharAt(s, d.endptr) # "]"
         THEN [bad |-> TRUE, den |-> d.val]
         ELSE [bad |-> FALSE, den |-> d.val])
    ELSE IF substr # end THEN [bad |-> TRUE, den |-> 1]
    ELSE [bad |-> FALSE, den |-> 1]

\* The set of outcomes of parse_datetime_extended_unit_from_string on the
\* substring of s that starts at index str and ends before index end.
parse_datetime_extended_unit_from_string(s, str, end, out_meta) ==
    Bind(strtol(s, str), LAMBDA n :
    Bind(IF n.endptr = str THEN 1 ELSE n.val, LAMBDA num :
    Bind(UnitEnd(s, n.endptr, end), LAMBDA substrend :
    IF n.endptr = substrend
    THEN {MdOutcome(-1, "TypeError", Meta(out_meta.base, num), FALSE, FALSE)}
    ELSE
    Bind(parse_datetime_unit_from_string(
             SubSeq(s, n.endptr, substrend - 1)), LAMBDA base :
    IF base = -1
    THEN {MdOutcome(-1, "TypeError", Meta(base, num), FALSE, FALSE)}
    ELSE
    Bind(ExtendedUnitDen(s, substrend, end), LAMBDA d :
    IF d.bad
    THEN {MdOutcome(-1, "TypeError", Meta(base, num), FALSE, FALSE)}
    ELSE IF d.den # 1
    THEN convert_datetime_divisor_to_multiple(Meta(base, num), d.den)
    ELSE {MdOutcome(0, "", Meta(base, num), FALSE, FALSE)})))))

\* The first index from i that is past the end of s or holds ']'.
RECURSIVE BracketEnd(_, _)
BracketEnd(s, i) ==
    IF i <= Len(s) /\ s[i] # "]" THEN BracketEnd(s, i + 1) ELSE i

\* The set of outcomes of parse_datetime_metadata_from_metastr.
parse_datetime_metadata_from_metastr(metastr, out_meta) ==
    IF Len(metastr) = 0
    THEN {MdOutcome(0, "", Meta(NPY_FR_GENERIC, 1), FALSE, FALSE)}
    ELSE IF Len(metastr) < 3 \/ metastr[1] # "["
    THEN {MdOutcome(-1, "TypeError", out_meta, FALSE, FALSE)}
    ELSE
    Bind(BracketEnd(metastr, 2), LAMBDA substrend :
    IF substrend = Len(metastr) + 1 \/ substrend = 2
    THEN {MdOutcome(-1, "TypeError", out_meta, FALSE, FALSE)}
    ELSE {IF o.status = 0 /\ ~o.trap /\ substrend # Len(metastr)
          THEN MdOutcome(-1, "TypeError", o.meta, FALSE, o.overflow)
          ELSE o :
          o \in parse_datetime_extended_unit_from_string(
                    metastr, 2, substrend, out_meta)})

----------------------------------------------------------------------------
(* parse_datetime_metadata_from_metastr on a metadata text.                *)

NumTexts ==
    {<<>>, <<"1">>, <<"3">>, <<"1", "2">>, <<"0">>, <<"-", "3">>,
     <<"+", "3">>, <<" ", "3">>}

UnitTexts ==
    {<<"Y">>, <<"M">>, <<"D">>, <<"s">>, <<"m", "s">>, <<"a", "s">>,
     <<"x">>, <<>>}

DenTexts ==
    {<<>>, <<"/", "1">>, <<"/", "2">>, <<"/", "3", "0">>, <<"/", "0">>,
     <<"/", "-", "2">>, <<"/", "+", "2">>, <<"/", " ", "2">>, <<"/">>}

Bracketed(n, u, d) == <<"[">> \o n \o u \o d \o <<"]">>

\* The bracketed texts, and texts with a bracket missing or with something
\* after the closing bracket.
ParseTexts ==
    {<<>>}
    \cup {Bracketed(n, u, d) : n \in NumTexts, u \in UnitTexts, d \in DenTexts}
    \cup {n \o u : n \in NumTexts, u \in UnitTexts}
    \cup {<<"[">> \o n \o u : n \in NumTexts, u \in UnitTexts}
    \cup {Bracketed(n, u, <<>>) \o <<"x">> : n \in NumTexts, u \in UnitTexts}

\* What the caller's metadata struct holds before the call.
ParseOutMetas == {Meta(NPY_FR_GENERIC, 1), Meta(NPY_FR_D, 7)}

ParseInit ==
    /\ pc = "call"
    /\ op = "parse_metadata"
    /\ arg \in [text : ParseTexts, out_meta : ParseOutMetas]
    /\ ret = None

ParseMetadata ==
    /\ pc = "call" /\ op = "parse_metadata"
    /\ ret' \in parse_datetime_metadata_from_metastr(arg.text, arg.out_meta)
    /\ pc' = "done"
    /\ UNCHANGED <<op, arg>>

ParseNext == ParseMetadata

SpecParse == ParseInit /\ [][ParseNext]_vars

ParseDone == pc = "done" /\ op = "parse_metadata"

\* An unsigned positive decimal integer: digits only, not zero.
IsUnsignedPositive(t) ==
    /\ Len(t) > 0
    /\ \A i \in 1 .. Len(t) : IsDigit(t[i])
    /\ ReadDigits(t, 1, 0)[1] > 0

\* '[' [num] unit ['/' den] ']' with num and den unsigned positive decimal
\* integers, or the empty text.
StrictGrammar(text) ==
    \/ text = <<>>
    \/ \E n \in NumTexts, u \in UnitTexts, d \in DenTexts :
          /\ text = Bracketed(n, u, d)
          /\ (n = <<>> \/ IsUnsignedPositive(n))
          /\ parse_datetime_unit_from_string(u) # -1
          /\ (d = <<>> \/ IsUnsignedPositive(Tail(d)))

\* C16 as stated: parse_metadata succeeds only on the empty text, giving
\* Generic/1, or on a text of the strict grammar; a text whose multiplier
\* or denominator is zero, negative, signed or preceded by white space is
\* rejected with an error; a parsed metadata has a multiplier >= 1; and
\* parsing never divides by zero.
C16_StrictGrammar ==
    ParseDone =>
        /\ ~ret.trap
        /\ (ret.status = 0 =>
              /\ StrictGrammar(arg.text)
              /\ ret.meta.num >= 1
              /\ (arg.text = <<>> => ret.meta = Meta(NPY_FR_GENERIC, 1)))
        /\ (ret.status = -1 => ret.err # "")

----------------------------------------------------------------------------
(* Metadata from a tuple (unit, multiplier[, denominator[, event]]).  The  *)
(* tuple is a sequence: the unit as a character sequence, then integers.   *)

\* The set of outcomes of
\* convert_datetime_metadata_tuple_to_datetime_metadata.  den is read from
\* the third item when the tuple has four items.
convert_datetime_metadata_tuple_to_datetime_metadata(tuple, out_meta) ==
    IF Len(tuple) < 2 \/ Len(tuple) > 4
    THEN {MdOutcome(-1, "TypeError", out_meta, FALSE, FALSE)}
    ELSE
    Bind(parse_datetime_unit_from_string(tuple[1]), LAMBDA base :
    IF base = -1
    THEN {MdOutcome(-1, "TypeError", Meta(base, out_meta.num), FALSE, FALSE)}
    ELSE
    Bind(IF Len(tuple) = 4 THEN tuple[3] ELSE 1, LAMBDA den :
    IF tuple[2] <= 0 \/ den <= 0
    THEN {MdOutcome(-1, "TypeError", Meta(base, tuple[2]), FALSE, FALSE)}
    ELSE IF den # 1
    THEN convert_datetime_divisor_to_multiple(Meta(base, tuple[2]), den)
    ELSE {MdOutcome(0, "", Meta(base, tuple[2]), FALSE, FALSE)}))

\* The decimal text of an integer.
RECURSIVE DecimalText(_)
DecimalText(n) ==
    IF n < 0 THEN <<"-">> \o DecimalText(-n)
    ELSE IF n < 10 THEN <<DecimalDigits[n + 1]>>
    ELSE DecimalText(n \div 10) \o <<DecimalDigits[(n % 10) + 1]>>

\* The text "[<n><u>/<den>]".
MetadataText(u, n, den) ==
    <<"[">> \o DecimalText(n) \o u \o <<"/">> \o DecimalText(den) \o <<"]">>

MaxTupleMult == 3

TupleUnits ==
    {<<"Y">>, <<"M">>, <<"W">>, <<"B">>, <<"D">>, <<"h">>, <<"m">>, <<"s">>,
     <<"m", "s">>, <<"f", "s">>, <<"a", "s">>}

TupleMults == -1 .. MaxTupleMult

TupleDens == {-2, 0, 1, 2, 7, 12, 30, 60, 1000}

TupleInit ==
    /\ pc = "call"
    /\ op = "tuple_metadata"
    /\ arg \in [unit : TupleUnits, num : TupleMults, den : TupleDens,
                size : 1 .. 5, out_meta : ParseOutMetas]
    /\ ret = None

\* The tuple of arg.size items: the unit, the multiplier, the denominator
\* and further items.
TupleOf(a) == SubSeq(<<a.unit, a.num, a.den, 1, 1>>, 1, a.size)

ConvertTuple ==
    /\ pc = "call" /\ op = "tuple_metadata"
    /\ \E o \in convert_datetime_metadata_tuple_to_datetime_metadata(
                    TupleOf(arg), arg.out_meta) :
          ret' = [tuple |-> o]
    /\ pc' = "tuple"
    /\ UNCHANGED <<op, arg>>

\* The parse of the text with the same unit, multiplier and denominator.
ParseTupleText ==
    /\ pc = "tuple" /\ op = "tuple_metadata"
    /\ \E o \in parse_datetime_metadata_from_metastr(
                    MetadataText(arg.unit, arg.num, arg.den), arg.out_meta) :
          ret' = [tuple |-> ret.tuple, text |-> o]
    /\ pc' = "done"
    /\ UNCHANGED <<op, arg>>

TupleNext == ConvertTuple \/ ParseTupleText

SpecTuple == TupleInit /\ [][TupleNext]_vars

TupleDone == pc = "done" /\ op = "tuple_metadata"

\* C18 as stated: for a multiplier n >= 1 and a denominator den >= 1 the
\* 3-element tuple (u, n, den) gives the same metadata, or the same
\* failure, as the text "[<n><u>/<den>]"; and a tuple with a multiplier
\* <= 0 or a denominator <= 0 is rejected.
C18_TupleDenominator ==
    TupleDone =>
        /\ (arg.size = 3 /\ arg.num >= 1 /\ arg.den >= 1 =>
              /\ ret.tuple.status = ret.text.status
              /\ ret.tuple.trap = ret.text.trap
              /\ (ret.tuple.status = 0 => ret.tuple.meta = ret.text.meta))
        /\ (arg.size \in 3 .. 4 /\ (arg.num <= 0 \/ arg.den <= 0) =>
              ret.tuple.status = -1 /\ ret.tuple.err # "")
        /\ (arg.size = 2 /\ arg.num <= 0 =>
              ret.tuple.status = -1 /\ ret.tuple.err # "")

----------------------------------------------------------------------------
(* Two callers of convert_datetime_divisor_to_multiple at once.  The unit  *)
(* row of the last pair of _multiples_table is static storage that every   *)
(* call on a unit from s on writes and then reads; each access is a step.  *)
(* pc, arg are per caller; ret holds the shared row, each caller's locals  *)
(* i and q, and each caller's outcome.                                     *)

Callers == {1, 2}

MaxParMult == 2

ParMetas ==
    {Meta(u, n) : u \in {NPY_FR_D, NPY_FR_s, NPY_FR_us, NPY_FR_fs,
                         NPY_FR_GENERIC},
                  n \in 1 .. MaxParMult}

ParDens == {7, 10, 1000}

ParInit ==
    /\ op = "parallel_divisor"
    /\ pc = [c \in Callers |-> "start"]
    /\ arg \in [Callers -> [meta : ParMetas, den : ParDens]]
    /\ ret = [row |-> _multiples_table[16],
              loc |-> [c \in Callers |-> [i |-> 0, q |-> 0]],
              out |-> [c \in Callers |-> None]]

\* The test for generic units and the choice of the rows.
ParStart(c) ==
    /\ op = "parallel_divisor" /\ pc[c] = "start"
    /\ IF arg[c].meta.base = NPY_FR_GENERIC
       THEN /\ ret' = [ret EXCEPT !.out[c] =
                           MdOutcome(-1, "ValueError", arg[c].meta,
                                     FALSE, FALSE)]
            /\ pc' = [pc EXCEPT ![c] = "done"]
       ELSE /\ ret' = ret
            /\ pc' = [pc EXCEPT ![c] = IF arg[c].meta.base >= NPY_FR_s
                                       THEN "write0" ELSE "loop"]
    /\ UNCHANGED <<op, arg>>

\* baseunit[0] = meta->base + 1;
ParWrite0(c) ==
    /\ op = "parallel_divisor" /\ pc[c] = "write0"
    /\ ret' = [ret EXCEPT !.row[1] = arg[c].meta.base + 1]
    /\ pc' = [pc EXCEPT ![c] = "write1"]
    /\ UNCHANGED <<op, arg>>

\* baseunit[1] = meta->base + 2;
ParWrite1(c) ==
    /\ op = "parallel_divisor" /\ pc[c] = "write1"
    /\ ret' = [ret EXCEPT !.row[2] = arg[c].meta.base + 2]
    /\ pc' = [pc EXCEPT ![c] = "loop"]
    /\ UNCHANGED <<op, arg>>

\* The loop over totry and the test i == num.
ParLoop(c) ==
    /\ op = "parallel_divisor" /\ pc[c] = "loop"
    /\ LET totry == _multiples_table[MultiplesInd(arg[c].meta.base) + 1]
           num == MultiplesNum(arg[c].meta.base)
           i == DivisorLoop(totry, arg[c].den, 0, num)
       IN  IF i = num
           THEN /\ ret' = [ret EXCEPT !.out[c] =
                               MdOutcome(-1, "ValueError", arg[c].meta,
                                         FALSE, FALSE)]
                /\ pc' = [pc EXCEPT ![c] = "done"]
           ELSE /\ ret' = [ret EXCEPT !.loc[c] =
                               [i |-> i,
                                q |-> CDiv(totry[i + 1], arg[c].den)]]
                /\ pc' = [pc EXCEPT ![c] = "assign"]
    /\ UNCHANGED <<op, arg>>

\* meta->base = baseunit[i]; meta->num *= q;
ParAssign(c) ==
    /\ op = "parallel_divisor" /\ pc[c] = "assign"
    /\ LET baseunit == IF arg[c].meta.base >= NPY_FR_s THEN ret.row
                       ELSE _multiples_table[MultiplesInd(arg[c].meta.base)
                                             + 2]
       IN  ret' = [ret EXCEPT !.out[c] =
                       MdOutcome(0, "",
                                 Meta(baseunit[ret.loc[c].i + 1],
                                      arg[c].meta.num * ret.loc[c].q),
                                 FALSE, FALSE)]
    /\ pc' = [pc EXCEPT ![c] = "done"]
    /\ UNCHANGED <<op, arg>>

ParNext ==
    \/ \E c \in Callers : ParStart(c)
    \/ \E c \in Callers : ParWrite0(c)
    \/ \E c \in Callers : ParWrite1(c)
    \/ \E c \in Callers : ParLoop(c)
    \/ \E c \in Callers : ParAssign(c)

SpecPar == ParInit /\ [][ParNext]_vars

\* C19 as stated: under every interleaving of the steps of two concurrent
\* callers of divisor_to_multiple, each caller obtains the result it
\* obtains when it runs alone.
C19_ParallelCallers ==
    op = "parallel_divisor" =>
        \A c \in Callers :
            pc[c] = "done" =>
                ret.out[c] \in convert_datetime_divisor_to_multiple(
                                   arg[c].meta, arg[c].den)

----------------------------------------------------------------------------
(* datetime_arange on timedelta arguments without a dtype.  An argument is *)
(* missing (NULL), None, or a timedelta64 scalar with its metadata and     *)
(* value.                                                                  *)

NullObj == [kind |-> "NULL", meta |-> Meta(NPY_FR_GENERIC, 1), val |-> IZero]

NoneObj == [kind |-> "None", meta |-> Meta(NPY_FR_GENERIC, 1), val |-> IZero]

TimedeltaObj(meta, val) == [kind |-> "timedelta", meta |-> meta, val |-> val]

\* An outcome of the conversion of the three arguments: the return value,
\* the exception, the values, the resolved metadata, and whether the call
\* trapped.
ObjsOutcome(status, err, values, meta, trap) ==
    [status |-> status, err |-> err, values |-> values, meta |-> meta,
     trap |-> trap]

\* meta[i] and out_values[i] of the first loop of
\* convert_pyobjects_to_datetimes: NULL gives NaT with generic units, a
\* timedelta64 scalar its own metadata and value.
ObjMeta(obj) == IF obj.kind = "NULL" THEN Meta(NPY_FR_GENERIC, 1) ELSE obj.meta

ObjValue(obj) == IF obj.kind = "NULL" THEN NPY_DATETIME_NAT ELSE obj.val

\* The third loop on the outcomes of the three casts, in order: the first
\* failure or trap ends the call.
CastLoop(o, meta) ==
    IF \E k \in 1 .. 3 : (o[k].trap \/ o[k].status < 0)
    THEN Bind(CHOOSE k \in 1 .. 3 :
                  /\ o[k].trap \/ o[k].status < 0
                  /\ \A j \in 1 .. k - 1 : ~o[j].trap /\ o[j].status = 0,
              LAMBDA k :
              IF o[k].trap THEN ObjsOutcome(0, "", <<>>, meta, TRUE)
              ELSE ObjsOutcome(-1, "CastError", <<>>, meta, FALSE))
    ELSE ObjsOutcome(0, "", <<o[1].out, o[2].out, o[3].out>>, meta, FALSE)

CastValues3(objs, meta) ==
    {CastLoop(<<o1, o2, o3>>, meta) :
        o1 \in cast_timedelta_to_timedelta(ObjMeta(objs[1]), meta,
                                           ObjValue(objs[1])),
        o2 \in cast_timedelta_to_timedelta(ObjMeta(objs[2]), meta,
                                           ObjValue(objs[2])),
        o3 \in cast_timedelta_to_timedelta(ObjMeta(objs[3]), meta,
                                           ObjValue(objs[3]))}

\* convert_pyobjects_to_datetimes(3, objs, {NPY_TIMEDELTA ...},
\* NPY_SAME_KIND_CASTING, values, &meta) with meta.base == -1: the
\* metadata are merged from the first on, every operand strict.
convert_pyobjects_to_datetimes(objs) ==
    Bind(compute_datetime_metadata_greatest_common_divisor(
             ObjMeta(objs[2]), ObjMeta(objs[1]), TRUE, TRUE), LAMBDA g1 :
    IF g1.status < 0
    THEN {ObjsOutcome(-1, g1.err, <<>>, ObjMeta(objs[1]), FALSE)}
    ELSE
    Bind(compute_datetime_metadata_greatest_common_divisor(
             ObjMeta(objs[3]), g1.out, TRUE, TRUE), LAMBDA g2 :
    IF g2.status < 0
    THEN {ObjsOutcome(-1, g2.err, <<>>, g1.out, FALSE)}
    ELSE CastValues3(objs, g2.out)))

\* An outcome of datetime_arange: whether an array was returned, the
\* exception otherwise, the values of the array, its metadata, and
\* whether the call trapped.
ArangeOutcome(status, err, seq, meta, trap) ==
    [status |-> status, err |-> err, seq |-> seq, meta |-> meta,
     trap |-> trap]

\* "Calculate the array length" and the loop that fills the array, for
\* values that are not NaT.
ArangeFill(v, meta) ==
    Bind(IF ILt(IZero, v[3]) /\ ILt(v[1], v[2])
         THEN IToInt(CDivI(IAdd(ISub(v[2], v[1]), ISub(v[3], IOne)), v[3]))
         ELSE IF ILt(v[3], IZero) /\ ILt(v[2], v[1])
         THEN IToInt(CDivI(IAdd(ISub(v[2], v[1]), IAdd(v[3], IOne)), v[3]))
         ELSE IF v[3] # IZero THEN 0
         ELSE -1, LAMBDA length :
    IF length < 0
    THEN ArangeOutcome(-1, "ValueError", <<>>, meta, FALSE)
    ELSE ArangeOutcome(0, "",
                       [i \in 1 .. length |->
                           IToInt(IAdd(v[1], IMul(I(i - 1), v[3])))],
                       meta, FALSE))

\* The part of datetime_arange after the normalisation of its arguments.
ArangeConverted(start, stop, step) ==
    {IF c.trap THEN ArangeOutcome(0, "", <<>>, c.meta, TRUE)
     ELSE IF c.status < 0 THEN ArangeOutcome(-1, c.err, <<>>, c.meta, FALSE)
     ELSE Bind(IF step.kind = "NULL"
               THEN <<c.values[1], c.values[2], IOne>> ELSE c.values,
               LAMBDA v :
               IF \E i \in 1 .. 3 : v[i] = NPY_DATETIME_NAT
               THEN ArangeOutcome(-1, "ValueError", <<>>, c.meta, FALSE)
               ELSE ArangeFill(v, c.meta)) :
     c \in convert_pyobjects_to_datetimes(<<start, stop, step>>)}

\* The set of outcomes of datetime_arange(start, stop, step, NULL) on
\* timedelta arguments.
datetime_arange(start, stop, step) ==
    Bind(IF step.kind = "None" THEN NullObj ELSE step, LAMBDA step1 :
    IF stop.kind \in {"NULL", "None"}
    THEN IF start.kind \in {"NULL", "None"}
         THEN {ArangeOutcome(-1, "ValueError", <<>>,
                             Meta(NPY_FR_GENERIC, 1), FALSE)}
         ELSE ArangeConverted(NullObj, start, step1)
    ELSE ArangeConverted(IF start.kind = "None" THEN NullObj ELSE start,
                         stop, step1))

MaxArangeVal == 4

ArangeMetas ==
    {Meta(NPY_FR_D, 1), Meta(NPY_FR_D, 2), Meta(NPY_FR_h, 1),
     Meta(NPY_FR_GENERIC, 1)}

ArangeObjs ==
    {NullObj, NoneObj}
    \cup {TimedeltaObj(m, I(v)) : m \in ArangeMetas, v \in -1 .. MaxArangeVal}
    \cup {TimedeltaObj(Meta(NPY_FR_D, 1), NPY_DATETIME_NAT)}

ArangeInit ==
    /\ pc = "call"
    /\ op = "arange"
    /\ arg \in [start : ArangeObjs, stop : ArangeObjs, step : ArangeObjs]
    /\ ret = None

DatetimeArange ==
    /\ pc = "call" /\ op = "arange"
    /\ ret' \in datetime_arange(arg.start, arg.stop, arg.step)
    /\ pc' = "done"
    /\ UNCHANGED <<op, arg>>

ArangeNext == DatetimeArange

SpecArange == ArangeInit /\ [][ArangeNext]_vars

ArangeDone == pc = "done" /\ op = "arange"

\* The call gives only a stopping value S, not NaT, and a step k > 0 or no
\* step.
StartOmitted ==
    /\ arg.stop.kind \in {"NULL", "None"}
    /\ arg.start.kind = "timedelta" /\ arg.start.val # NPY_DATETIME_NAT
    /\ \/ arg.step.kind \in {"NULL", "None"}
       \/ /\ arg.step.kind = "timedelta"
          /\ arg.step.val # NPY_DATETIME_NAT
          /\ ILt(IZero, arg.step.val)

\* C20 as stated: a timedelta arange with only a stopping value S and a
\* step k > 0 or no step succeeds, starts at 0, and is 0, k, 2k, ... of
\* length ceil(S / k), empty when S <= 0.
C20_ArangeStartOmitted ==
    ArangeDone /\ StartOmitted =>
        /\ ret.status = 0 /\ ~ret.trap
        /\ (ret.seq # <<>> => ret.seq[1] = 0)
        /\ (ILe(arg.start.val, IZero) => ret.seq = <<>>)
        /\ (arg.step.kind \in {"NULL", "None"}
               \/ arg.step.meta = arg.start.meta =>
              LET S == IToInt(arg.start.val)
                  k == IF arg.step.kind = "timedelta"
                       THEN IToInt(arg.step.val) ELSE 1
                  n == IF S <= 0 THEN 0 ELSE (S + k - 1) \div k
              IN  ret.seq = [i \in 1 .. n |-> (i - 1) * k])

\* A supplied argument of the call is a NaT timedelta.
SuppliedNaT ==
    \E a \in {arg.start, arg.stop, arg.step} :
        a.kind = "timedelta" /\ a.val = NPY_DATETIME_NAT

\* C21 as stated, on timedelta arguments: when a supplied start, stop or
\* step is NaT, in any unit, datetime_arange fails with a ValueError and
\* returns no array; when the step is 0 it fails.
C21_ArangeRejectsNaT ==
    ArangeDone =>
        /\ SuppliedNaT =>
              ret.status = -1 /\ ret.err = "ValueError" /\ ~ret.trap
        /\ (arg.step.kind = "timedelta" /\ arg.step.val = IZero
               /\ ~SuppliedNaT) =>
              ret.status = -1

----------------------------------------------------------------------------
(* convert_pyobject_to_timedelta on an object with the attributes days,    *)
(* seconds and microseconds (a datetime.timedelta).                        *)

UsPerDay == IMul(I(86400), E6)

\* td = days*(24*60*60*1000000LL) + seconds*1000000LL + useconds
TimedeltaMicroseconds(days, seconds, useconds) ==
    IAdd(IAdd(IMul(I(days), UsPerDay), IMul(I(seconds), E6)), I(useconds))

\* "Detect the largest unit where every value after is zero": the values
\* us_meta.base can have at the cast-rule check and whether it was
\* assigned.  When no test of the chain fires nothing is assigned and the
\* read is of an uninitialized int: any unit of the enumeration.
DetectUnit(td) ==
    IF CModI(td, E3) # IZero
    THEN {[base |-> NPY_FR_us, assigned |-> TRUE]}
    ELSE IF CModI(td, E6) # IZero
    THEN {[base |-> NPY_FR_ms, assigned |-> TRUE]}
    ELSE IF CModI(td, IMul(I(60), E6)) # IZero
    THEN {[base |-> NPY_FR_s, assigned |-> TRUE]}
    ELSE IF CModI(td, IMul(I(3600), E6)) # IZero
    THEN {[base |-> NPY_FR_m, assigned |-> TRUE]}
    ELSE IF CModI(td, UsPerDay) # IZero
    THEN {[base |-> NPY_FR_D, assigned |-> TRUE]}
    ELSE IF CModI(td, IMul(I(7), UsPerDay)) # IZero
    THEN {[base |-> NPY_FR_W, assigned |-> TRUE]}
    ELSE {[base |-> u, assigned |-> FALSE] : u \in Units}

\* An outcome of the conversion: the return value, the exception, the
\* unit of the cast-rule check and whether it was assigned, the metadata
\* and the value written, and whether the call trapped.
PyTdOutcome(status, err, unit, meta, out, trap) ==
    [status |-> status, err |-> err, unit |-> unit, meta |-> meta,
     out |-> out, trap |-> trap]

\* The set of outcomes of convert_pyobject_to_timedelta(meta, obj, casting,
\* out) for obj with the three attributes; meta.base = -1 is "not set".
convert_pyobject_to_timedelta(meta, days, seconds, useconds, casting) ==
    Bind(TimedeltaMicroseconds(days, seconds, useconds), LAMBDA td :
    IF meta.base = -1
    THEN {PyTdOutcome(0, "", [base |-> NPY_FR_us, assigned |-> TRUE],
                      Meta(NPY_FR_us, 1), td, FALSE)}
    ELSE UNION {
        IF ~can_cast_timedelta64_metadata(Meta(d.base, 1), meta, casting)
        THEN {PyTdOutcome(-1, "TypeError", d, meta, IZero, FALSE)}
        ELSE {PyTdOutcome(o.status, "", d, meta, o.out, o.trap) :
                 o \in cast_timedelta_to_timedelta(Meta(NPY_FR_us, 1),
                                                   meta, td)} :
        d \in DetectUnit(td)})

MaxTdDays == 7

TdDays == (-MaxTdDays) .. MaxTdDays

TdSeconds == {0, 1, 60, 3600, 86399}

TdUseconds == {0, 1, 1000, 999999}

TdMetas ==
    {Meta(-1, 1), Meta(NPY_FR_M, 1), Meta(NPY_FR_W, 1), Meta(NPY_FR_D, 1),
     Meta(NPY_FR_h, 1), Meta(NPY_FR_s, 1), Meta(NPY_FR_us, 1)}

PyTdInit ==
    /\ pc = "call"
    /\ op = "pyobject_to_timedelta"
    /\ arg \in [meta : TdMetas, days : TdDays, seconds : TdSeconds,
                useconds : TdUseconds, casting : Castings]
    /\ ret = None

ConvertPyTimedelta ==
    /\ pc = "call" /\ op = "pyobject_to_timedelta"
    /\ ret' \in convert_pyobject_to_timedelta(arg.meta, arg.days,
                   arg.seconds, arg.useconds, arg.casting)
    /\ pc' = "done"
    /\ UNCHANGED <<op, arg>>

PyTdNext == ConvertPyTimedelta

SpecPyTd == PyTdInit /\ [][PyTdNext]_vars

PyTdDone == pc = "done" /\ op = "pyobject_to_timedelta"

\* The microseconds in one of the units the spec lists.
UsPerUnit(u) ==
    CASE u = NPY_FR_us -> IOne
      [] u = NPY_FR_ms -> E3
      [] u = NPY_FR_s -> E6
      [] u = NPY_FR_m -> IMul(I(60), E6)
      [] u = NPY_FR_D -> UsPerDay
      [] u = NPY_FR_W -> IMul(I(7), UsPerDay)

ListedUnits ==
    {NPY_FR_us, NPY_FR_ms, NPY_FR_s, NPY_FR_m, NPY_FR_D, NPY_FR_W}

DividesExactly(u, td) == CModI(td, UsPerUnit(u)) = IZero

\* C22 as stated: with a target unit set, the unit used for the cast-rule
\* check is assigned, is one of us, ms, s, m, D, W, divides the microsecond
\* count exactly, and is the coarsest listed unit that does.
C22_HostTimedeltaUnit ==
    PyTdDone /\ arg.meta.base # -1 =>
        Bind(TimedeltaMicroseconds(arg.days, arg.seconds, arg.useconds),
             LAMBDA td :
             /\ ret.unit.assigned
             /\ ret.unit.base \in ListedUnits
             /\ DividesExactly(ret.unit.base, td)
             /\ \A u \in ListedUnits :
                   DividesExactly(u, td) => ret.unit.base <= u)

----------------------------------------------------------------------------
(* A value converted to a broken-down struct and back.                     *)

MaxValue == 30

ValueMults == {1, 2, 3, 7}

\* The number of ticks of a unit at which the next coarser field of the
\* struct changes.
UnitCarry(u) ==
    CASE u = NPY_FR_M -> I(12)
      [] u = NPY_FR_B -> I(5)
      [] u = NPY_FR_h -> I(24)
      [] u = NPY_FR_m -> I(24 * 60)
      [] u = NPY_FR_s -> I(24 * 60 * 60)
      [] u = NPY_FR_ms -> IMul(I(24 * 60 * 60), E3)
      [] u = NPY_FR_us -> IMul(I(24 * 60 * 60), E6)
      [] u = NPY_FR_ns -> IMul(I(24 * 60 * 60), E9)
      [] u = NPY_FR_ps -> IMul(I(24 * 60 * 60), E12)
      [] u = NPY_FR_fs -> IMul(I(60), E15)
      [] u = NPY_FR_as -> E18
      [] OTHER -> I(7)

\* The values tried at a unit: the values around 0 and the values around
\* the first carries of the unit, on both sides of 0.
ValuesOf(u) ==
    {I(v) : v \in (-MaxValue) .. MaxValue}
    \cup {IAdd(IMul(UnitCarry(u), I(n)), I(e)) :
             n \in {-2, -1, 1, 2}, e \in {-1, 0, 1}}

ValueInit ==
    /\ pc = "call"
    /\ op = "value_roundtrip"
    /\ \E u \in NPY_FR_Y .. NPY_FR_as : \E k \in ValueMults :
       \E v \in ValuesOf(u) :
          arg = [meta |-> Meta(u, k), v |-> v]
    /\ ret = None

ValueToStruct ==
    /\ pc = "call" /\ op = "value_roundtrip"
    /\ ret' = [st |-> convert_datetime_to_datetimestruct(arg.meta, arg.v)]
    /\ pc' = "struct"
    /\ UNCHANGED <<op, arg>>

StructToValue ==
    /\ pc = "struct" /\ op = "value_roundtrip"
    /\ ret.st.status = 0
    /\ ret' = [st |-> ret.st,
               back |-> convert_datetimestruct_to_datetime(arg.meta,
                                                           ret.st.out)]
    /\ pc' = "done"
    /\ UNCHANGED <<op, arg>>

ValueNext == ValueToStruct \/ StructToValue

SpecValue == ValueInit /\ [][ValueNext]_vars

ValueDone == pc = "done" /\ op = "value_roundtrip"

\* C23: for every unit Y .. as, every multiplier and every value v, v < 0
\* included, whose product with the multiplier fits npy_int64, the struct
\* of v has a month in 1..12, a day of that month, an hour below 24, a
\* minute and a second below 60 and sub-second fields below 1000000.
C23_ValueToStructValid ==
    pc \in {"struct", "done"} /\ op = "value_roundtrip"
        /\ ~ret.st.overflow =>
            /\ ret.st.status = 0
            /\ ValidStruct(ret.st.out)

\* -1 as is the last attosecond of 1969, a valid struct.
C23_Witness ==
    /\ pc = "struct" /\ op = "value_roundtrip"
    /\ arg = [meta |-> Meta(NPY_FR_as, 1), v |-> I(-1)]
    /\ ret.st.out = [year |-> I(1969), month |-> 12, day |-> 31,
                     hour |-> 23, min |-> 59, sec |-> 59, us |-> 999999,
                     ps |-> 999999, as |-> 999999]

\* C24: for every unit Y .. as, W and B included, every multiplier k and
\* every value v, v < 0 included, with v * k in npy_int64, the value of the
\* struct of v at (u, k) is v.
C24_ValueRoundTrip ==
    ValueDone /\ ~ret.st.overflow =>
        /\ ret.back.status = 0
        /\ ret.back.out = arg.v

\* -8 at B/3 is business day -24, Friday 1969-11-28, and converts back to -8.
C24_Witness ==
    /\ ValueDone
    /\ arg = [meta |-> Meta(NPY_FR_B, 3), v |-> I(-8)]
    /\ ret.st.out = [ZeroStruct EXCEPT !.year = I(1969), !.month = 11,
                                       !.day = 28]
    /\ ret.back.out = I(-8)

----------------------------------------------------------------------------
(* Business days: a value of unit B and its date, a calendar day and its   *)
(* value.                                                                  *)

MaxBusiness == 60

BusinessInit ==
    /\ pc = "call"
    /\ op \in {"business_value", "business_day"}
    /\ arg \in (-MaxBusiness) .. MaxBusiness
    /\ ret = None

\* The dates of the values arg and arg + 1, and the value of the first.
BusinessValue ==
    /\ pc = "call" /\ op = "business_value"
    /\ ret' = Bind(convert_datetime_to_datetimestruct(Meta(NPY_FR_B, 1),
                                                      I(arg)), LAMBDA st :
              [st |-> st,
               next |-> convert_datetime_to_datetimestruct(
                            Meta(NPY_FR_B, 1), I(arg + 1)),
               back |-> convert_datetimestruct_to_datetime(
                            Meta(NPY_FR_B, 1), st.out)])
    /\ pc' = "done"
    /\ UNCHANGED <<op, arg>>

\* The values of the calendar days arg, arg + 1 and arg - 1, arg - 2.
BusinessDay ==
    /\ pc = "call" /\ op = "business_day"
    /\ ret' = [k \in -2 .. 1 |->
                  convert_datetimestruct_to_datetime(Meta(NPY_FR_B, 1),
                      set_datetimestruct_days(arg + k, ZeroStruct))]
    /\ pc' = "done"
    /\ UNCHANGED <<op, arg>>

BusinessNext == BusinessValue \/ BusinessDay

SpecBusiness == BusinessInit /\ [][BusinessNext]_vars

\* The day of the week of a day offset from 1970-01-01, a Thursday:
\* 0 is Monday, 5 and 6 are Saturday and Sunday.
Weekday(d) == (d + 3) % 7

\* C25: the date of a business-day value is a Monday to Friday, the date of
\* the next value is the next weekday, 0 is Thursday 1970-01-01 and the
\* date converts back to the value; the value of a Saturday or Sunday is
\* that of the Friday before, and the value never decreases from a
\* calendar day to the next.
C25_BusinessDays ==
    /\ pc = "done" /\ op = "business_value" =>
          Bind(get_datetimestruct_days(ret.st.out), LAMBDA d :
          Bind(get_datetimestruct_days(ret.next.out), LAMBDA d1 :
          /\ ret.st.status = 0 /\ ret.next.status = 0
          /\ Weekday(d) \in 0 .. 4
          /\ d1 = (IF Weekday(d) = 4 THEN d + 3 ELSE d + 1)
          /\ (arg = 0 => ret.st.out = ZeroStruct /\ Weekday(d) = 3)
          /\ ret.back.status = 0
          /\ ret.back.out = I(arg)))
    /\ pc = "done" /\ op = "business_day" =>
          /\ \A k \in -2 .. 1 : ret[k].status = 0
          /\ ILe(ret[0].out, ret[1].out)
          /\ (Weekday(arg) = 5 => ret[0].out = ret[-1].out)
          /\ (Weekday(arg) = 6 => ret[0].out = ret[-2].out)
          /\ (Weekday(arg) \in 0 .. 4 /\ Weekday(arg + 1) \in 0 .. 4 =>
                ret[1].out = IAdd(ret[0].out, IOne))

\* Saturday 1969-12-27 (day -5) has the value -4 of Friday 1969-12-26, and
\* the value -4 has the date 1969-12-26.
C25_Witness ==
    \/ /\ pc = "done" /\ op = "business_day" /\ arg = -5
       /\ ret[0].out = I(-4) /\ ret[-1].out = I(-4)
    \/ /\ pc = "done" /\ op = "business_value" /\ arg = -4
       /\ ret.st.out = [ZeroStruct EXCEPT !.year = I(1969), !.month = 12,
                                          !.day = 26]

----------------------------------------------------------------------------
(* A minute or second offset added to a valid struct.                      *)

MaxOffsetDays == 70

AddOffsets ==
    {0, 1, 59, 60, 61, 1439, 1440, 1441, 28 * 1440, 31 * 1440,
     MaxOffsetDays * 1440}

AddStructs ==
    { d \in { [year |-> I(y), month |-> mo, day |-> dd, hour |-> c[1],
               min |-> c[2], sec |-> c[3], us |-> 0, ps |-> 0, as |-> 0] :
                 y \in {1900, 1969, 1970, 1972, 2000}, mo \in {1, 2, 3, 12},
                 dd \in {1, 28, 29, 31},
                 c \in {<<0, 0, 0>>, <<23, 59, 59>>, <<12, 30, 15>>} } :
        ValidStruct(d) }

AddInit ==
    /\ pc = "call"
    /\ op \in {"add_minutes", "add_seconds"}
    /\ arg \in [dts : AddStructs,
                n : AddOffsets \cup {-o : o \in AddOffsets}]
    /\ ret = None

AddMinutes ==
    /\ pc = "call" /\ op = "add_minutes"
    /\ ret' = add_minutes_to_datetimestruct(arg.dts, arg.n)
    /\ pc' = "done"
    /\ UNCHANGED <<op, arg>>

AddSeconds ==
    /\ pc = "call" /\ op = "add_seconds"
    /\ ret' = add_seconds_to_datetimestruct(arg.dts, arg.n)
    /\ pc' = "done"
    /\ UNCHANGED <<op, arg>>

AddNext == AddMinutes \/ AddSeconds

SpecAdd == AddInit /\ [][AddNext]_vars

AddDone == pc = "done" /\ op \in {"add_minutes", "add_seconds"}

\* The seconds from the epoch to a struct.
SecondsFromEpoch(dts) == SecondsOf(get_datetimestruct_days(dts), dts)

\* C26 as stated: for every valid struct and every offset, of more than a
\* month too, the result of add_minutes_to_datetimestruct is a valid struct
\* that is the offset in minutes later, and the same holds in seconds for
\* add_seconds_to_datetimestruct.
C26_AddCarries ==
    AddDone =>
        /\ ValidStruct(ret)
        /\ SecondsFromEpoch(ret)
              = IAdd(SecondsFromEpoch(arg.dts),
                     I(IF op = "add_minutes" THEN 60 * arg.n ELSE arg.n))

----------------------------------------------------------------------------
(* The metadata inferred from a sequence of datetime64 scalars.            *)

\* One leaf of recursive_find_object_datetime64_type, a datetime64 scalar
\* with metadata 'leaf': "Combine it with 'meta'", both flags 0.  acc is
\* the outcome so far; a failure ends the descent.
CombineLeaf(acc, leaf) ==
    IF acc.status < 0 THEN acc
    ELSE Bind(compute_datetime_metadata_greatest_common_divisor(
                  acc.out, leaf, FALSE, FALSE), LAMBDA g :
         IF g.status < 0 THEN [status |-> -1, out |-> acc.out]
         ELSE [status |-> 0, out |-> g.out])

\* recursive_find_object_datetime64_type on a sequence of three datetime64
\* scalars, from the metadata find_object_datetime_type starts with.
recursive_find_object_datetime64_type(leaves) ==
    CombineLeaf(
        CombineLeaf(
            CombineLeaf([status |-> 0, out |-> Meta(NPY_FR_GENERIC, 1)],
                        leaves[1]),
            leaves[2]),
        leaves[3])

\* The outcome as the caller sees it: the metadata, or the failure.
FoundMeta(r) == IF r.status < 0 THEN [status |-> -1] ELSE r

MaxFoldMult == 2

FoldMetas ==
    {Meta(u, n) : u \in Units \ {NPY_FR_fs, NPY_FR_as},
                  n \in (1 .. MaxFoldMult) \cup {7}}

FoldInit ==
    /\ pc = "call"
    /\ op = "find_type"
    /\ arg \in [1 .. 3 -> FoldMetas]
    /\ ret = None

\* The sequence as given.
FindType ==
    /\ pc = "call" /\ op = "find_type"
    /\ ret' = [given |-> recursive_find_object_datetime64_type(arg)]
    /\ pc' = "given"
    /\ UNCHANGED <<op, arg>>

\* The same leaves in the five other orders, and the two groupings of the
\* pairwise GCD.
FindTypePermuted ==
    /\ pc = "given" /\ op = "find_type"
    /\ ret' = [given |-> ret.given,
               perms |-> {recursive_find_object_datetime64_type(
                              <<arg[p[1]], arg[p[2]], arg[p[3]]>>) :
                          p \in {q \in [1 .. 3 -> 1 .. 3] :
                                    {q[1], q[2], q[3]} = 1 .. 3}},
               left |-> CombineLeaf(
                            CombineLeaf([status |-> 0, out |-> arg[1]],
                                        arg[2]), arg[3]),
               right |-> Bind(CombineLeaf([status |-> 0, out |-> arg[2]],
                                          arg[3]), LAMBDA bc :
                         IF bc.status < 0 THEN bc
                         ELSE CombineLeaf([status |-> 0, out |-> arg[1]],
                                          bc.out))]
    /\ pc' = "done"
    /\ UNCHANGED <<op, arg>>

FoldNext == FindType \/ FindTypePermuted

SpecFold == FoldInit /\ [][FoldNext]_vars

FoldDone == pc = "done" /\ op = "find_type"

\* C27 as stated: with both flags 0, gcd(gcd(a, b), c) and gcd(a, gcd(b, c))
\* are the same metadata or both fail, and the metadata inferred from a
\* sequence is the same for every order of its leaves.
C27_InferenceOrder ==
    FoldDone =>
        /\ FoundMeta(ret.left) = FoundMeta(ret.right)
        /\ \A r \in ret.perms : FoundMeta(r) = FoundMeta(ret.given)

----------------------------------------------------------------------------
\* No overflow guard of the divisibility test of a by g trips: the units
\* factor between them is reported, and the multiplier of the coarser one
\* scaled by it (by 12 first for Y against M) has a clear top byte.
ScaledFits(a, g) ==
    Bind(IF a.base <= g.base THEN a ELSE g, LAMBDA coarse :
    Bind(IF a.base <= g.base THEN g ELSE a, LAMBDA fine :
    Bind(get_datetime_units_factor(coarse.base, fine.base), LAMBDA f :
    /\ Len(f) # 0
    /\ ~TopByteSet(NMulLimb(NMulLimb(f, coarse.num),
                            IF coarse.base = NPY_FR_Y /\ fine.base = NPY_FR_M
                            THEN 12 ELSE 1)))))

\* C28: for non-Generic a and b with small multipliers, when
\* gcd_metadata(a, b) with both flags set succeeds with g and no overflow
\* guard trips, metadata_divides(a, g, strict) and
\* metadata_divides(b, g, strict) both hold.
C28_GcdDivides ==
    pc \in {"forward", "done"} /\ op = "gcd_metadata"
        /\ arg.strict1 /\ arg.strict2
        /\ arg.meta1.base # NPY_FR_GENERIC /\ arg.meta2.base # NPY_FR_GENERIC
        /\ ret.fwd.status = 0
        /\ ScaledFits(arg.meta1, ret.fwd.out)
        /\ ScaledFits(arg.meta2, ret.fwd.out) =>
            /\ datetime_metadata_divides(arg.meta1, ret.fwd.out, TRUE)
            /\ datetime_metadata_divides(arg.meta2, ret.fwd.out, TRUE)

\* gcd_metadata(W/2, h/7) has succeeded with h/7, which divides both.
C28_Witness ==
    /\ pc = "forward" /\ op = "gcd_metadata"
    /\ arg = [meta1 |-> Meta(NPY_FR_W, 2), meta2 |-> Meta(NPY_FR_h, 7),
              strict1 |-> TRUE, strict2 |-> TRUE]
    /\ ret.fwd.status = 0 /\ ret.fwd.out = Meta(NPY_FR_h, 7)

----------------------------------------------------------------------------
\* The units whose ratio to each other is fixed.
FixedUnits == NPY_FR_W .. NPY_FR_ps \ {NPY_FR_B}

\* floor(x / d) for d > 0.
FloorDivI(x, d) ==
    IF x.neg /\ CModI(x, d) # IZero
    THEN ISub(CDivI(x, d), IOne)
    ELSE CDivI(x, d)

\* floor(v * num / den) for the exact conversion factor num/den of the pair.
ExactCast(src, dst, v) ==
    Bind(ExactFactor(src, dst), LAMBDA e :
    FloorDivI(IMul(v, IMk(FALSE, e[1])), IMk(FALSE, e[2])))

\* v times the numerator of the exact factor fits npy_int64.
ExactCastFits(src, dst, v) ==
    InInt64(IMul(v, IMk(FALSE, ExactFactor(src, dst)[1])))

\* C29 as stated: for two metadata with units among W, D, h, m, s, ms, us,
\* ns, ps and a value that is not NaT and does not overflow, the datetime
\* cast and the timedelta cast both return floor(v * num / den) for the
\* conversion factor num/den of the pair.
C29_CastsAgree ==
    CastDone /\ arg.src.base \in FixedUnits /\ arg.dst.base \in FixedUnits
             /\ arg.v1 # NPY_DATETIME_NAT
             /\ ExactCastFits(arg.src, arg.dst, arg.v1) =>
        /\ ret.r1.status = 0
        /\ (op = "cast_timedelta" => ~ret.r1.trap)
        /\ ret.r1.out = ExactCast(arg.src, arg.dst, arg.v1)

----------------------------------------------------------------------------
(* The per-item metadata array of convert_pyobjects_to_datetimes, called   *)
(* with inout_meta->base == -1 and NPY_SAME_KIND_CASTING.  An item is a    *)
(* slot of objs with its type number; the object is NULL, a datetime64 or  *)
(* timedelta64 scalar, or an object that neither converter recognises.     *)

MaxCount == 3

AllocItem(type_num, kind, meta, val) ==
    [type_num |-> type_num, kind |-> kind, meta |-> meta, val |-> val]

AllocItems ==
    {AllocItem(t, "NULL", Meta(NPY_FR_GENERIC, 1), IZero) :
        t \in {"NPY_DATETIME", "NPY_LONG"}}
    \cup {AllocItem("NPY_DATETIME", "datetime64", mt, IOne) :
            mt \in {Meta(NPY_FR_D, 1), Meta(NPY_FR_h, 1),
                    Meta(NPY_FR_GENERIC, 1)}}
    \cup {AllocItem("NPY_TIMEDELTA", "timedelta64", mt, IOne) :
            mt \in {Meta(NPY_FR_D, 1), Meta(NPY_FR_M, 1)}}
    \cup {AllocItem(t, "object", Meta(NPY_FR_GENERIC, 1), IZero) :
            t \in {"NPY_DATETIME", "NPY_TIMEDELTA"}}
    \cup {AllocItem("NPY_LONG", "datetime64", Meta(NPY_FR_D, 1), IOne)}

\* The allocation as the function sees it: whether meta points to a live
\* block, how many times PyArray_free(meta) ran, and whether meta[] was
\* read or written while it did not point to a live block.
AllocState(heap, frees, stale) ==
    [heap |-> heap, frees |-> frees, stale |-> stale]

\* A read or a write of meta[i].
MetaAccess(h) == IF h.heap = "live" THEN h ELSE [h EXCEPT !.stale = TRUE]

PyArray_free_Leak(h) == h

\* PyArray_free(meta).
PyArray_free(h) == [h EXCEPT !.heap = "freed", !.frees = @ + 1]

\* The locals of the call: the loop index, the allocation, the contents of
\* meta[], out_values[], *inout_meta, is_out_strict, and the return value
\* with its exception once the call has returned.
AllocLocals(i, h, meta, values, inout_meta, strict, status, err) ==
    [i |-> i, h |-> h, meta |-> meta, values |-> values,
     inout_meta |-> inout_meta, is_out_strict |-> strict,
     status |-> status, err |-> err]

AllocInit ==
    /\ pc = "call"
    /\ op = "convert_pyobjects"
    /\ \E count \in 1 .. MaxCount : arg \in [1 .. count -> AllocItems]
    /\ ret = None

\* meta = PyArray_malloc(...); if (meta == NULL) { PyErr_NoMemory();
\* return -1; }
AllocMalloc ==
    /\ op = "convert_pyobjects" /\ pc = "call"
    /\ \E ok \in BOOLEAN :
        IF ok
        THEN /\ ret' = AllocLocals(0, AllocState("live", 0, FALSE),
                                   [k \in 1 .. Len(arg) |-> Meta(-1, 1)],
                                   [k \in 1 .. Len(arg) |-> IZero],
                                   Meta(-1, 1), FALSE, 0, "")
             /\ pc' = "convert"
        ELSE /\ ret' = AllocLocals(0, AllocState("unallocated", 0, FALSE),
                                   <<>>, <<>>, Meta(-1, 1), FALSE, -1,
                                   "MemoryError")
             /\ pc' = "done"
    /\ UNCHANGED <<op, arg>>

\* Whether the converter of the item's type number converts its object:
\* with meta[i].base == -1 a scalar of the converter's own kind is copied,
\* anything else ends in "Could not convert object".
Converts(item) ==
    \/ item.type_num = "NPY_DATETIME" /\ item.kind = "datetime64"
    \/ item.type_num = "NPY_TIMEDELTA" /\ item.kind = "timedelta64"

\* One iteration of "Convert all the objects into timedeltas or
\* datetimes"; after the last one, "*inout_meta = meta[0]".
AllocConvert ==
    /\ op = "convert_pyobjects" /\ pc = "convert"
    /\ LET i == ret.i
           item == arg[i + 1]
           h == MetaAccess(ret.h)
       IN  IF item.kind # "NULL" /\ ~Converts(item)
           THEN /\ ret' = [ret EXCEPT !.h = PyArray_free(h), !.status = -1,
                                      !.err = "ValueError"]
                /\ pc' = "done"
           ELSE LET mt == IF item.kind = "NULL"
                          THEN Meta(NPY_FR_GENERIC, 1) ELSE item.meta
                    v == IF item.kind = "NULL"
                         THEN NPY_DATETIME_NAT ELSE item.val
                    metas == [ret.meta EXCEPT ![i + 1] = mt]
                IN  IF i + 1 < Len(arg)
                    THEN /\ ret' = [ret EXCEPT !.h = h, !.i = i + 1,
                                               !.meta = metas,
                                               !.values[i + 1] = v]
                         /\ pc' = "convert"
                    ELSE /\ ret' = [ret EXCEPT
                                        !.h = MetaAccess(h), !.i = 1,
                                        !.meta = metas, !.values[i + 1] = v,
                                        !.inout_meta = metas[1],
                                        !.is_out_strict =
                                            arg[1].type_num = "NPY_TIMEDELTA"]
                         /\ pc' = "merge"
    /\ UNCHANGED <<op, arg>>

\* One iteration of "Merge all the metadatas, starting with the first
\* one", or the end of the loop.
AllocMerge ==
    /\ op = "convert_pyobjects" /\ pc = "merge"
    /\ IF ret.i < Len(arg)
       THEN LET strict == arg[ret.i + 1].type_num = "NPY_TIMEDELTA"
                h == MetaAccess(ret.h)
                g == compute_datetime_metadata_greatest_common_divisor(
                         ret.meta[ret.i + 1], ret.inout_meta, strict,
                         ret.is_out_strict)
            IN  IF g.status < 0
                THEN /\ ret' = [ret EXCEPT !.h = PyArray_free(h),
                                           !.status = -1, !.err = g.err]
                     /\ pc' = "done"
                ELSE /\ ret' = [ret EXCEPT
                                    !.h = h, !.i = ret.i + 1,
                                    !.inout_meta = g.out,
                                    !.is_out_strict =
                                        ret.is_out_strict \/ strict]
                     /\ pc' = "merge"
       ELSE /\ ret' = [ret EXCEPT !.i = 0]
            /\ pc' = "cast"
    /\ UNCHANGED <<op, arg>>

\* The cast of one item in "Convert all the values into the resolved unit
\* metadata": [status, out, trap].  An item whose type number is neither
\* NPY_DATETIME nor NPY_TIMEDELTA is left alone.
CastItem(type_num, src_meta, dst_meta, v) ==
    IF type_num = "NPY_DATETIME"
    THEN Bind(cast_datetime_to_datetime(src_meta, dst_meta, v), LAMBDA c :
         {[status |-> c.status, out |-> c.out, trap |-> FALSE]}
         \cup (IF c.overflow
               THEN {[status |-> 0, out |-> v, trap |-> TRUE]} ELSE {}))
    ELSE IF type_num = "NPY_TIMEDELTA"
    THEN {[status |-> c.status, out |-> IF c.written THEN c.out ELSE v,
           trap |-> c.trap] :
          c \in cast_timedelta_to_timedelta(src_meta, dst_meta, v)}
    ELSE {[status |-> 0, out |-> v, trap |-> FALSE]}

\* One iteration of the cast loop, or the end of the loop with the final
\* PyArray_free(meta) and "return 0".  A trap ends the process inside the
\* call.
AllocCast ==
    /\ op = "convert_pyobjects" /\ pc = "cast"
    /\ IF ret.i < Len(arg)
       THEN LET i == ret.i
                item == arg[i + 1]
                h == IF item.type_num \in {"NPY_DATETIME", "NPY_TIMEDELTA"}
                     THEN MetaAccess(ret.h) ELSE ret.h
            IN  \E c \in CastItem(item.type_num, ret.meta[i + 1],
                                  ret.inout_meta, ret.values[i + 1]) :
                    IF c.trap
                    THEN /\ ret' = [ret EXCEPT !.h = h]
                         /\ pc' = "trapped"
                    ELSE IF c.status < 0
                    THEN /\ ret' = [ret EXCEPT !.h = PyArray_free(h),
                                               !.status = -1,
                                               !.err = "CastError"]
                         /\ pc' = "done"
                    ELSE /\ ret' = [ret EXCEPT !.h = h, !.i = i + 1,
                                               !.values[i + 1] = c.out]
                         /\ pc' = "cast"
       ELSE /\ ret' = [ret EXCEPT !.h = PyArray_free(ret.h), !.status = 0]
            /\ pc' = "done"
    /\ UNCHANGED <<op, arg>>

AllocNext ==
    \/ AllocMalloc
    \/ AllocConvert
    \/ AllocMerge
    \/ AllocCast

SpecAlloc == AllocInit /\ [][AllocNext]_vars

\* C30: in convert_pyobjects_to_datetimes called with unset metadata and
\* count > 0, the per-item metadata array is never read or written unless
\* it is live, is never freed twice, and when the call has returned after
\* a successful allocation (with 0, or with -1 on a conversion error, an
\* invalid type number, a gcd failure or a cast failure at any index) it
\* has been freed exactly once.
C30_AllocationReleased ==
    (op = "convert_pyobjects" /\ pc # "call") =>
        /\ ~ret.h.stale
        /\ ret.h.frees <= 1
        /\ (ret.h.heap = "freed") = (ret.h.frees = 1)
        /\ (pc = "done" /\ ret.h.heap # "unallocated") => ret.h.frees = 1
        /\ (pc # "done") => ret.h.frees = 0

\* A cast failure at the second of three items has returned -1 with the
\* array freed once.
C30_Witness ==
    /\ op = "convert_pyobjects" /\ pc = "done"
    /\ Len(arg) = 3
    /\ ret.status = -1 /\ ret.err = "CastError" /\ ret.i = 1
    /\ ret.h.frees = 1 /\ ret.h.heap = "freed"

====
